---- MODULE Spec2Model ----
(***************************************************************************)
(* A TLA+ model of the alignment core of bewer:                            *)
(*   - the Levenshtein alignment builder  (metrics/levenshtein.py)         *)
(*   - the Alignment reference-index query (alignment/alignment.py)        *)
(*   - the keyword locator                (core/keyword.py, core/text.py)  *)
(*   - the ambient pipeline configuration (preprocessing/context.py)       *)
(*   - the pipeline-cached properties     (core/caching.py)                *)
(*   - the life of an Alignment object    (alignment/alignment.py)         *)
(* Python indices are kept 0-based; a Python list is a TLA+ sequence, so   *)
(* list[i] is written seq[i + 1].                                          *)
(***************************************************************************)
EXTENDS Integers, Sequences, FiniteSets, TLC

VARIABLES
    \* ---- builder (Levenshtein_._get_ops) ----
    params_normalized, \* self.params.normalized
    build_pipelines, \* what the texts of the example find when they resolve their pipeline functions
    ref_tokens,      \* example.ref.tokens : sequence of Token records
    hyp_tokens,      \* example.hyp.tokens : sequence of Token records
    rapidfuzz_ops,   \* the edit script returned by the edit-distance primitive
    build_state,     \* "input", "built", or the name of the exception raised
    bewer_ops,       \* the local list bewer_ops when _get_ops ended (<<>> if line 83 was not reached)
    alignment,       \* the ops of the Alignment returned by _get_ops (<<>> if none)
    alignment_src    \* Alignment._src of the returned Alignment

builderVars == <<params_normalized, build_pipelines, ref_tokens, hyp_tokens, rapidfuzz_ops,
                 build_state, bewer_ops, alignment, alignment_src>>

VARIABLES
    \* ---- an Alignment and the last ops_from_ref_index call on it ----
    self_ops,        \* the ops of the Alignment (the tuple itself)
    op_counts,       \* Alignment._op_counts
    src,             \* Alignment._src
    call_args,       \* <<start, stop>> of the last call (<<>> before any call)
    call_raised,     \* the exception the last call raised ("none" if none)
    call_result      \* the ops of the Alignment the last call returned

indexVars == <<self_ops, op_counts, src, call_args, call_raised, call_result>>

VARIABLES
    \* ---- the ambient pipeline configuration (preprocessing/context.py) ----
    active_tasks,    \* the logical tasks (threads) that run
    ctx,             \* per task: the value of each ContextVar in the task's context
    frames,          \* per task: the stack of set_pipeline blocks it is inside
    raising,         \* per task: an exception is propagating
    left             \* the last set_pipeline block that was left, and how

pipelineVars == <<active_tasks, ctx, frames, raising, left>>

VARIABLES
    \* ---- the keyword locator (core/keyword.py, core/text.py) ----
    token_list,              \* the haystack TokenList
    kw_tokens,               \* the keyword's tokens (Keyword.tokens)
    raw_index_cache,         \* the cached TokenList._raw_index_mapping
    normalized_index_cache,  \* TokenList._normalized_index_cache
    find_args,               \* <<normalized>> of the last find_in_tokens call (<<>> if none)
    find_result              \* the list of TokenList slices the last call returned

keywordVars == <<token_list, kw_tokens, raw_index_cache, normalized_index_cache,
                 find_args, find_result>>

VARIABLES
    \* ---- the pipeline-cached properties (core/caching.py, core/text.py, core/token.py) ----
    registry,        \* dataset.pipelines: per stage, the names that have a function
    subjects,        \* the instances the program reads
    sources,         \* per instance: _src, the parent given to set_source (None before)
    caches,          \* per instance and property: the per-instance cache dict
    calls,           \* per instance, property and stage names: how often the function ran
    last_read        \* the last read of a derived property and its outcome

cacheVars == <<registry, subjects, sources, caches, calls, last_read>>

VARIABLES
    \* ---- the life of Alignment objects (alignment/alignment.py) ----
    al_self,         \* the Alignment the program holds: its ops, _op_counts and _src
    al_other,        \* a second Alignment, the right operand of +
    al_call          \* the last operation on al_self and its outcome

lifecycleVars == <<al_self, al_other, al_call>>

VARIABLES
    \* ---- the errors raised so far ----
    error_types      \* per cause of failure: the exception types raised for it

errorVars == <<error_types>>

VARIABLES
    \* ---- the character-index lookups of an Alignment (alignment/alignment.py) ----
    lookup           \* the last start_index_to_op / end_index_to_op call and its result

lookupVars == <<lookup>>

VARIABLES
    \* ---- the construction of one Op (alignment/op.py) ----
    op_args,         \* the arguments of Op(...)
    op_made          \* the outcome of the construction: the exception raised, the Op made

opVars == <<op_args, op_made>>

VARIABLES
    \* ---- Keyword.find_in_ref (core/keyword.py) ----
    cache_find_in_ref   \* Keyword._cache_find_in_ref: cache key -> the list found

findVars == <<cache_find_in_ref>>

VARIABLES
    \* ---- two threads that read one derived property (core/caching.py) ----
    thread_prop,     \* the property of the Text the threads read
    thread_pc,       \* per thread: where it is in PipelineCachedProperty.__get__
    thread_result,   \* per thread: the object it holds (result, or the value returned)
    thread_inner     \* per thread: the standardized text the body of tokens has read

raceVars == <<thread_prop, thread_pc, thread_result, thread_inner>>

VARIABLES
    \* ---- the keyword error count of one example (metrics/kwer.py) ----
    kwer_params,     \* self.params.normalized, and whether example.keywords holds params.vocab
    kwer_ref,        \* example.ref.tokens
    kwer_hyp,        \* example.hyp.tokens
    kwer_editops,    \* the edit script the primitive returns for the two token lists
    kwer_keywords,   \* example.keywords[vocab]: the token lists of the keywords
    kwer_alignment,  \* the ops of the local alignment of line 26 (<<>> if none was returned)
    kwer_num_errors, \* the value num_errors returned (NoneIdx if none)
    kwer_raised      \* "not read", or how the read of num_errors ended: "none" or the exception

kwerVars == <<kwer_params, kwer_ref, kwer_hyp, kwer_editops, kwer_keywords, kwer_alignment,
              kwer_num_errors, kwer_raised>>

VARIABLES
    \* ---- metric values (metrics/base.py) ----
    metric_pipeline, \* obj.pipeline of every metric
    metric_dict,     \* obj.__dict__[name] of every metric (NotComputed: no entry)
    metric_stack,    \* the calls of metric_value.__get__ that are computing
    metric_read      \* the call of metric_value.__get__ that ended last

metricVars == <<metric_pipeline, metric_dict, metric_stack, metric_read>>

laterVars == <<lookupVars, opVars, findVars, raceVars, kwerVars, metricVars>>

newerVars == <<cacheVars, lifecycleVars, errorVars, laterVars>>

vars == <<builderVars, indexVars, pipelineVars, keywordVars, newerVars>>

(***************************************************************************)
(* Bounds of the model.                                                    *)
(***************************************************************************)
MaxRef == 3
MaxHyp == 2
\* The keyword model: haystacks of at most MaxHaystack tokens, keywords of at
\* most MaxKeyword tokens.
MaxHaystack == 3
MaxKeyword == 2
\* set_pipeline blocks are nested at most MaxDepth deep.
MaxDepth == 3
\* Alignments of the index model: at most MaxOps ops, reference indices 0..MaxRefIdx.
MaxOps == 4
MaxRefIdx == 1

\* The token texts the inputs are drawn from.
Alphabet == {"a", "b"}
\* The raw token texts of the builder model: "A" and "a" differ raw and are
\* equal normalized.  The hypothesis tokens all read "a".
BuilderAlphabet == {"A", "a"}
HypAlphabet == {"a"}

(***************************************************************************)
(* Python's None, for the three kinds of optional Op field.                *)
(***************************************************************************)
NoneIdx == -1
NoneStr == "None"
NoneSpan == <<>>
NoExample == "None"
TheExample == "example"

(***************************************************************************)
(* Generic helpers.                                                        *)
(***************************************************************************)
SeqsUpTo(S, n) == UNION {[1..k -> S] : k \in 0..n}

\* range(n)
Range(n) == 0..(n - 1)

\* All orders in which a set may be iterated.
IterationOrders(S) ==
    {f \in [1..Cardinality(S) -> S] : \A i, j \in 1..Cardinality(S) : i # j => f[i] # f[j]}

\* sorted(S) for a finite set of integers.
RECURSIVE SortedSeq(_)
SortedSeq(S) ==
    IF S = {} THEN <<>>
    ELSE LET m == CHOOSE x \in S : \A y \in S : x <= y
         IN <<m>> \o SortedSeq(S \ {m})

(***************************************************************************)
(* Tokens.  A Token has raw text, a character span [start, end) and its    *)
(* index; Token.slice is slice(start, end).  The tokenizer collaborator is *)
(* modelled by one-character tokens separated by one blank.                *)
(***************************************************************************)
Token(raw, start, end, index) == [raw |-> raw, start |-> start, end |-> end, index |-> index]

TokenSlice(token) == <<token.start, token.end>>

TokenListFromTexts(texts) ==
    [k \in 1..Len(texts) |-> Token(texts[k], 2 * (k - 1), 2 * (k - 1) + 1, k - 1)]

\* preprocessing/normalization.py, lowercase: the normalizer registered
\* under the default name.
lowercase(text) == IF text = "A" THEN "a" ELSE text

\* Token.normalized / Token.raw
TokenText(token, normalized) == IF normalized THEN lowercase(token.raw) ELSE token.raw

\* TokenList.normalized / TokenList.raw
TokenTexts(tokens, normalized) == [k \in DOMAIN tokens |-> TokenText(tokens[k], normalized)]

(***************************************************************************)
(* Op and Alignment (alignment/op.py, alignment/alignment.py).             *)
(***************************************************************************)
MATCH == "MATCH"
INSERT == "INSERT"
DELETE == "DELETE"
SUBSTITUTE == "SUBSTITUTE"
OpTypes == {MATCH, INSERT, DELETE, SUBSTITUTE}

Op(type, ref, hyp, ref_token_idx, hyp_token_idx, ref_span, hyp_span) ==
    [type |-> type, ref |-> ref, hyp |-> hyp,
     ref_token_idx |-> ref_token_idx, hyp_token_idx |-> hyp_token_idx,
     ref_span |-> ref_span, hyp_span |-> hyp_span]

\* Levenshtein_.OPS_MAP
OPS_MAP(op_type) ==
    CASE op_type = "match" -> MATCH
      [] op_type = "replace" -> SUBSTITUTE
      [] op_type = "insert" -> INSERT
      [] op_type = "delete" -> DELETE

(***************************************************************************)
(* The edit script.  An entry is <<kind, ref_idx, hyp_idx>> as rapidfuzz   *)
(* reports it: (tag, src_pos, dest_pos), where an insert carries the       *)
(* reference position it is inserted before and a delete the hypothesis    *)
(* position it is deleted before.  Matches are never reported.             *)
(***************************************************************************)
EditKinds == {"replace", "insert", "delete"}
\* Kinds an entry of a corrupted script may carry.
OtherKinds == {"match", "equal"}

\* The scripts of the monotone paths from (i, j) to (n, m): a diagonal step
\* over equal texts is a match (not reported), over different texts a replace.
RECURSIVE PathScripts(_, _, _, _)
PathScripts(ref, hyp, i, j) ==
    IF i = Len(ref) /\ j = Len(hyp) THEN {<<>>}
    ELSE
      (IF i < Len(ref) /\ j < Len(hyp)
         THEN IF ref[i + 1] = hyp[j + 1]
                THEN PathScripts(ref, hyp, i + 1, j + 1)
                ELSE {<<<<"replace", i, j>>>> \o s : s \in PathScripts(ref, hyp, i + 1, j + 1)}
         ELSE {})
      \cup
      (IF i < Len(ref)
         THEN {<<<<"delete", i, j>>>> \o s : s \in PathScripts(ref, hyp, i + 1, j)}
         ELSE {})
      \cup
      (IF j < Len(hyp)
         THEN {<<<<"insert", i, j>>>> \o s : s \in PathScripts(ref, hyp, i, j + 1)}
         ELSE {})

\* The scripts a correct edit-distance primitive can return for (ref, hyp).
ValidScripts(ref, hyp) == PathScripts(ref, hyp, 0, 0)

\* Scripts of a faulty primitive: one entry lost, or one entry's kind changed.
DropEntry(s, k) == SubSeq(s, 1, k - 1) \o SubSeq(s, k + 1, Len(s))

Retagged(s, k) ==
    {[s EXCEPT ![k] = <<kind, s[k][2], s[k][3]>>] :
        kind \in (EditKinds \cup OtherKinds) \ {s[k][1]}}

CorruptedScripts(ref, hyp) ==
    UNION {{DropEntry(s, k) : k \in 1..Len(s)} \cup UNION {Retagged(s, k) : k \in 1..Len(s)}
           : s \in ValidScripts(ref, hyp)}

(***************************************************************************)
(* Levenshtein_._get_ops (metrics/levenshtein.py, lines 51-114).           *)
(***************************************************************************)
\* line 71
RefEditIdxs(ops) == {ops[k][2] : k \in {x \in DOMAIN ops : ops[x][1] # "insert"}}
\* line 72
HypEditIdxs(ops) == {ops[k][3] : k \in {x \in DOMAIN ops : ops[x][1] # "delete"}}
\* line 73
MatchRefIndices(ref, ops) == Range(Len(ref)) \ RefEditIdxs(ops)
\* line 74
MatchHypIndices(hyp, ops) == Range(Len(hyp)) \ HypEditIdxs(ops)

\* lines 78-79: zip() of the two sets in the order each is iterated in.
ZipMatches(ref_order, hyp_order) ==
    LET shorter == IF Len(ref_order) <= Len(hyp_order) THEN Len(ref_order) ELSE Len(hyp_order)
    IN [k \in 1..shorter |-> <<"match", ref_order[k], hyp_order[k]>>]

\* line 76: the assertion; the mutant is the build with the assertion left out.
MatchCountsAgree_Unchecked(match_ref_indices, match_hyp_indices) == TRUE

MatchCountsAgree(match_ref_indices, match_hyp_indices) ==
    Cardinality(match_ref_indices) = Cardinality(match_hyp_indices)

\* line 80: the sort key (x[1], x[2]) of Python, compared as a tuple.
KeyLess(x, y) == x[2] < y[2] \/ (x[2] = y[2] /\ x[3] < y[3])

\* line 80: sorted() is stable: an entry goes after every entry that is not
\* greater than it.
RECURSIVE InsertSorted(_, _)
InsertSorted(sorted, x) ==
    IF sorted = <<>> THEN <<x>>
    ELSE IF KeyLess(x, sorted[Len(sorted)])
           THEN InsertSorted(SubSeq(sorted, 1, Len(sorted) - 1), x) \o <<sorted[Len(sorted)]>>
           ELSE sorted \o <<x>>

RECURSIVE SortedOps(_)
SortedOps(ops) ==
    IF ops = <<>> THEN <<>>
    ELSE InsertSorted(SortedOps(SubSeq(ops, 1, Len(ops) - 1)), ops[Len(ops)])

\* x != y for two indices of which one is None: Python then evaluates x < y,
\* which raises TypeError.
Incomparable(a, b) == a # b /\ (a = NoneIdx \/ b = NoneIdx)

\* line 80: comparing the keys (x[1], x[2]) of two entries as tuples goes to
\* the first position where they differ and compares there with <.
KeyCompareRaises(x, y) ==
    Incomparable(x[2], y[2]) \/ (x[2] = y[2] /\ Incomparable(x[3], y[3]))

\* line 80: sorted() raises when two of the keys cannot be compared (entries
\* that end up next to each other are compared with each other).
SortError(ops) ==
    IF \E k, l \in DOMAIN ops : k # l /\ KeyCompareRaises(ops[k], ops[l])
      THEN "TypeError" ELSE "none"

\* lines 84-110: the exception, if any, that converting one entry raises.
ConvertError(entry, ref, hyp) ==
    LET op_type == entry[1]
        ref_idx == entry[2]
        hyp_idx == entry[3]
    IN CASE op_type \in {"match", "replace"} ->
              IF hyp_idx >= Len(hyp) \/ ref_idx >= Len(ref) THEN "IndexError" ELSE "none"
         [] op_type = "delete" ->
              IF ref_idx >= Len(ref) THEN "IndexError" ELSE "none"
         [] op_type = "insert" ->
              IF hyp_idx >= Len(hyp) THEN "IndexError" ELSE "none"
         [] OTHER -> "ValueError"

\* lines 84-110: the Op one entry is converted to.
\* ref and hyp are example.ref.tokens and example.hyp.tokens; the texts of
\* the op are those of the lists chosen at lines 61-66.
ConvertOp(entry, ref, hyp, normalized) ==
    LET op_type == entry[1]
        ref_idx == entry[2]
        hyp_idx == entry[3]
    IN CASE op_type \in {"match", "replace"} ->
              Op(OPS_MAP(op_type), TokenText(ref[ref_idx + 1], normalized),
                 TokenText(hyp[hyp_idx + 1], normalized), ref_idx, hyp_idx,
                 TokenSlice(ref[ref_idx + 1]), TokenSlice(hyp[hyp_idx + 1]))
         [] op_type = "delete" ->
              Op(OPS_MAP(op_type), TokenText(ref[ref_idx + 1], normalized), NoneStr,
                 ref_idx, NoneIdx, TokenSlice(ref[ref_idx + 1]), NoneSpan)
         [] op_type = "insert" ->
              Op(OPS_MAP(op_type), NoneStr, TokenText(hyp[hyp_idx + 1], normalized),
                 NoneIdx, hyp_idx, NoneSpan, TokenSlice(hyp[hyp_idx + 1]))

(***************************************************************************)
(* Alignment (alignment/alignment.py).                                     *)
(***************************************************************************)
\* _count_operations, lines 159-162
CountOperations(seq) ==
    [t \in OpTypes |-> Cardinality({k \in DOMAIN seq : seq[k].type = t})]

\* What reading op.src gives on an object of the Op of alignment/op.py, a
\* dataclass with the fields type, ref, hyp, the token indices and the spans:
\* it has no attribute src and no method set_source.
NoSrcAttribute == "no attribute src"

\* The objects an iterable handed to a constructor is made of: objects of the
\* Op of alignment/op.py, or objects that have src and set_source and no
\* parent yet (the objects alignment.py lines 51-53 are written for).
OpObjects == {NoSrcAttribute, NoneStr}

\* op.src of each op of an iterable of new objects of one kind
Fresh(iterable, op_src) == [k \in DOMAIN iterable |-> op_src]

\* Alignment(iterable, src): __new__ and __init__, lines 32-53.  srcs is what
\* op.src gives for each op of the iterable.  The ops are counted and src is
\* bound (lines 45-49); then the loop of lines 51-53 reads op.src of each op,
\* which raises AttributeError on an op without the attribute, so that no
\* Alignment is returned, and calls op.set_source(self) on each op whose src
\* is None ("Alignment": the op was handed an Alignment as its parent).
NewAlignment(iterable, srcs, src_arg) ==
    IF \E k \in DOMAIN iterable : srcs[k] = NoSrcAttribute
      THEN [raised |-> "AttributeError", al |-> NoneStr]                   \* line 52
      ELSE [raised |-> "none",
            al |-> [ops |-> iterable, op_counts |-> CountOperations(iterable),
                    src |-> src_arg,
                    op_srcs |-> [k \in DOMAIN iterable |->
                                   IF srcs[k] = NoneStr THEN "Alignment" ELSE srcs[k]]]]

(***************************************************************************)
(* Levenshtein_._get_ops as a whole (metrics/levenshtein.py, lines 51-114). *)
(***************************************************************************)
\* lines 61-66: the exception, if any, that reading the token texts raises.
\* example.ref.tokens is a pipeline-cached property of a Text (core/text.py
\* 95-98, core/caching.py 53-62) and token.normalized resolves the normalizer
\* (core/token.py 94-98); both raise ValueError when they cannot.
Resolved == "resolved"
NoPipelines == "_pipelines is None"
NormalizerMissing == "no normalizer of that name"

SelectTokensError(ref, hyp, normalized, pipelines) ==
    IF pipelines = NoPipelines
      THEN "ValueError"                                     \* lines 62, 65: .tokens
    ELSE IF normalized /\ pipelines = NormalizerMissing /\ Len(ref) + Len(hyp) > 0
      THEN "ValueError"                                     \* lines 62, 63: .normalized
      ELSE "none"

NoOutcome == [ops |-> <<>>, src |-> NoExample]

\* The outcome of _get_ops for one iteration order of each match set: the
\* exception raised ("none" if none), the local list bewer_ops as it was when
\* the function ended, and the ops and the source of the Alignment returned.
\* The ops of lines 86-108 are objects of the Op of alignment/op.py.
\* The mutant skips an entry it cannot convert instead of raising.
GetOpsOutcome_SkipUnknown(ref, hyp, normalized, pipelines, ops, ref_order, hyp_order) ==
    LET sorted == SortedOps(ops \o ZipMatches(ref_order, hyp_order))
        known == SelectSeq(sorted, LAMBDA e : ConvertError(e, ref, hyp) = "none")
        converted == [k \in DOMAIN known |-> ConvertOp(known[k], ref, hyp, normalized)]
        made == NewAlignment(converted, Fresh(converted, NoSrcAttribute), TheExample)
    IN IF SelectTokensError(ref, hyp, normalized, pipelines) # "none"
         THEN [raised |-> "ValueError", bewer_ops |-> <<>>, al |-> NoOutcome]
       ELSE IF ~MatchCountsAgree(MatchRefIndices(ref, ops), MatchHypIndices(hyp, ops))
         THEN [raised |-> "AssertionError", bewer_ops |-> <<>>, al |-> NoOutcome]
       ELSE IF made.raised # "none"
         THEN [raised |-> made.raised, bewer_ops |-> converted, al |-> NoOutcome]
         ELSE [raised |-> "none", bewer_ops |-> converted,
               al |-> [ops |-> made.al.ops, src |-> made.al.src]]

GetOpsOutcome(ref, hyp, normalized, pipelines, ops, ref_order, hyp_order) ==
    IF SelectTokensError(ref, hyp, normalized, pipelines) # "none"
      THEN [raised |-> SelectTokensError(ref, hyp, normalized, pipelines),    \* lines 61-66
            bewer_ops |-> <<>>, al |-> NoOutcome]
    ELSE IF ~MatchCountsAgree(MatchRefIndices(ref, ops), MatchHypIndices(hyp, ops))
      THEN [raised |-> "AssertionError", bewer_ops |-> <<>>, al |-> NoOutcome]  \* line 76
    ELSE IF SortError(ops \o ZipMatches(ref_order, hyp_order)) # "none"
      THEN [raised |-> SortError(ops \o ZipMatches(ref_order, hyp_order)),      \* line 80
            bewer_ops |-> <<>>, al |-> NoOutcome]
      ELSE LET sorted == SortedOps(ops \o ZipMatches(ref_order, hyp_order))
               failing == {k \in DOMAIN sorted : ConvertError(sorted[k], ref, hyp) # "none"}
           IN IF failing # {}
                THEN LET first == CHOOSE k \in failing : \A l \in failing : k <= l
                     IN [raised |-> ConvertError(sorted[first], ref, hyp),     \* lines 84-110
                         bewer_ops |-> [k \in 1..(first - 1) |->
                                          ConvertOp(sorted[k], ref, hyp, normalized)],
                         al |-> NoOutcome]
                ELSE LET converted == [k \in DOMAIN sorted |->
                                         ConvertOp(sorted[k], ref, hyp, normalized)]
                         made == NewAlignment(converted, Fresh(converted, NoSrcAttribute),
                                              TheExample)                      \* line 113
                     IN IF made.raised # "none"
                          THEN [raised |-> made.raised, bewer_ops |-> converted,
                                al |-> NoOutcome]
                          ELSE [raised |-> "none", bewer_ops |-> converted,
                                al |-> [ops |-> made.al.ops, src |-> made.al.src]]

\* The mutant numbers the reference-bearing ops and forgets the Inserts
\* between them.
RefIndexMapping_IgnoresInserts(seq) ==
    LET present == {seq[k].ref_token_idx : k \in {x \in DOMAIN seq : seq[x].ref_token_idx # NoneIdx}}
    IN [i \in present |->
          Cardinality({l \in DOMAIN seq :
              /\ seq[l].ref_token_idx # NoneIdx
              /\ \E k \in DOMAIN seq : seq[k].ref_token_idx = i /\ l < k})]

\* _ref_index_mapping, lines 98-105: a later op overwrites an earlier one
\* with the same ref_token_idx.  Positions are Python's, from 0.
RefIndexMapping(seq) ==
    LET present == {seq[k].ref_token_idx : k \in {x \in DOMAIN seq : seq[x].ref_token_idx # NoneIdx}}
    IN [i \in present |->
          (CHOOSE k \in DOMAIN seq :
              /\ seq[k].ref_token_idx = i
              /\ \A l \in DOMAIN seq : seq[l].ref_token_idx = i => l <= k) - 1]

\* tuple.__getitem__(slice(lo, hi)) for 0 <= lo, 0 <= hi
PySlice(seq, lo, hi) ==
    LET top == IF hi <= Len(seq) THEN hi ELSE Len(seq)
    IN IF top <= lo THEN <<>> ELSE SubSeq(seq, lo + 1, top)

\* The mutant forgets that the stop op belongs to the slice.
SliceStop_Exclusive(mapping, stop) == mapping[stop]

\* lines 128-129: the end of the slice, one past the stop op.
SliceStop(mapping, stop) == mapping[stop] + 1

\* The mutant leaves out the test of line 126.
Misordered_Unchecked(start, stop) == FALSE

\* line 126
Misordered(start, stop) == stop < start

\* ops_from_ref_index, lines 107-129: the exception raised ("none" if none)
\* and the ops of the Alignment returned.
OpsFromRefIndexOutcome(seq, start, stop) ==
    LET mapping == RefIndexMapping(seq)
    IN IF start \notin DOMAIN mapping
         THEN [raised |-> "ValueError", ops |-> <<>>]                       \* line 122
       ELSE IF stop # NoneIdx /\ stop \notin DOMAIN mapping
         THEN [raised |-> "ValueError", ops |-> <<>>]                       \* line 124
       ELSE IF stop # NoneIdx
         THEN IF Misordered(start, stop)
                THEN [raised |-> "ValueError", ops |-> <<>>]                \* line 127
                ELSE [raised |-> "none",
                      ops |-> PySlice(seq, mapping[start], SliceStop(mapping, stop))]
       ELSE [raised |-> "none", ops |-> PySlice(seq, mapping[start], SliceStop(mapping, start))]

\* An Op of the index model: reference-bearing kinds carry a reference index
\* and the span of that token, an Insert carries neither.
IndexOp(type, ref_idx, hyp_idx) ==
    CASE type \in {MATCH, SUBSTITUTE} ->
            Op(type, "a", "a", ref_idx, hyp_idx, <<2 * ref_idx, 2 * ref_idx + 1>>, <<2 * hyp_idx, 2 * hyp_idx + 1>>)
      [] type = DELETE ->
            Op(type, "a", NoneStr, ref_idx, NoneIdx, <<2 * ref_idx, 2 * ref_idx + 1>>, NoneSpan)
      [] type = INSERT ->
            Op(type, NoneStr, "a", NoneIdx, hyp_idx, NoneSpan, <<2 * hyp_idx, 2 * hyp_idx + 1>>)

OpShapes == ((OpTypes \ {INSERT}) \X (0..MaxRefIdx)) \cup {<<INSERT, NoneIdx>>}

\* Python's None where an Op is expected
NoneOp == [type |-> "None"]

\* slice.start and slice.stop of a span
SpanStart(span) == span[1]
SpanStop(span) == span[2]

\* The positions (Python's, from 0) of the ops that carry a reference span
\* whose end `end_of` is c; a dict built by a loop keeps the last of them.
LastPositionAt(seq, c, end_of) ==
    (CHOOSE k \in DOMAIN seq :
        /\ seq[k].ref_span # NoneSpan /\ seq[k].ref_span[end_of] = c
        /\ \A l \in DOMAIN seq :
              (seq[l].ref_span # NoneSpan /\ seq[l].ref_span[end_of] = c) => l <= k) - 1

\* The mutant keys the ops by their reference token index.
StartIndexMapping_ByTokenIndex(seq) == RefIndexMapping(seq)

\* _start_index_mapping, lines 80-87
StartIndexMapping(seq) ==
    LET spanned == {k \in DOMAIN seq : seq[k].ref_span # NoneSpan}
    IN [c \in {SpanStart(seq[k].ref_span) : k \in spanned} |-> LastPositionAt(seq, c, 1)]

\* _end_index_mapping, lines 89-96
EndIndexMapping(seq) ==
    LET spanned == {k \in DOMAIN seq : seq[k].ref_span # NoneSpan}
    IN [c \in {SpanStop(seq[k].ref_span) : k \in spanned} |-> LastPositionAt(seq, c, 2)]

\* start_index_to_op, lines 131-143
StartIndexToOp(seq, char_index) ==
    LET mapping == StartIndexMapping(seq)
    IN IF char_index \in DOMAIN mapping THEN seq[mapping[char_index] + 1] ELSE NoneOp

\* end_index_to_op, lines 145-157
EndIndexToOp(seq, char_index) ==
    LET mapping == EndIndexMapping(seq)
    IN IF char_index \in DOMAIN mapping THEN seq[mapping[char_index] + 1] ELSE NoneOp

NoLookup == [name |-> "none", char_index |-> NoneIdx, result |-> NoneOp]

(***************************************************************************)
(* Op (alignment/op.py).                                                   *)
(***************************************************************************)
\* Op.__post_init__, lines 49-61: the exception raised ("none" if none).
\* Only the two texts are examined.
PostInitError(type, ref, hyp) ==
    CASE type = MATCH      -> IF ref = NoneStr \/ hyp = NoneStr THEN "ValueError" ELSE "none"
      [] type = INSERT     -> IF hyp = NoneStr \/ ref # NoneStr THEN "ValueError" ELSE "none"
      [] type = DELETE     -> IF hyp # NoneStr \/ ref = NoneStr THEN "ValueError" ELSE "none"
      [] type = SUBSTITUTE -> IF ref = NoneStr \/ hyp = NoneStr THEN "ValueError" ELSE "none"

\* Op(type=..., ref=..., ...): the dataclass __init__ assigns the fields
\* (lines 37-47), then runs __post_init__.
NewOp(args) ==
    LET raised == PostInitError(args.type, args.ref, args.hyp)
    IN [raised |-> raised,
        op |-> IF raised = "none"
                 THEN Op(args.type, args.ref, args.hyp, args.ref_token_idx,
                         args.hyp_token_idx, args.ref_span, args.hyp_span)
                 ELSE NoneOp]

\* The arguments a caller can pass: each field given or left None.
OpArguments ==
    [type : OpTypes, ref : {NoneStr, "a"}, hyp : {NoneStr, "a"},
     ref_token_idx : {NoneIdx, 0}, hyp_token_idx : {NoneIdx, 0},
     ref_span : {NoneSpan, <<0, 1>>}, hyp_span : {NoneSpan, <<0, 1>>}]

NoArguments == [type |-> "None"]
NotMade == [raised |-> "none", op |-> NoneOp]

(***************************************************************************)
(* The ambient pipeline configuration (preprocessing/context.py).          *)
(* Each task has its own context; a ContextVar that was never set in it    *)
(* is Unset there and get() returns the default.                           *)
(***************************************************************************)
Tasks == {"t1", "t2"}

\* bewer.flags.DEFAULT
DEFAULT == "default"
\* The names a call of set_pipeline is given.
PipelineNames == {DEFAULT, "alt"}
\* A ContextVar without a value in the context (Token.MISSING as old value).
Unset == "<unset>"

\* lines 13-15
STANDARDIZER_NAME == "STANDARDIZER"
TOKENIZER_NAME == "TOKENIZER"
NORMALIZER_NAME == "NORMALIZER"
ContextVars == {STANDARDIZER_NAME, TOKENIZER_NAME, NORMALIZER_NAME}

EmptyContext == [v \in ContextVars |-> Unset]

\* ContextVar.get() with default=DEFAULT
Get(context, var) == IF context[var] = Unset THEN DEFAULT ELSE context[var]

\* The ambient (standardizer, tokenizer, normalizer) names.
Ambient(context) ==
    <<Get(context, STANDARDIZER_NAME), Get(context, TOKENIZER_NAME), Get(context, NORMALIZER_NAME)>>

\* ContextVar.set(value): the new context; the Token returned holds the old value.
SetVar(context, var, value) == [context EXCEPT ![var] = value]

\* ContextVar.reset(token): the variable is given the Token's old value back.
ResetVar(context, var, old_value) == [context EXCEPT ![var] = old_value]

\* set_pipeline, lines 27-29: the context inside the block.
ContextOnEnter(context, standardizer, tokenizer, normalizer) ==
    SetVar(SetVar(SetVar(context, TOKENIZER_NAME, tokenizer),
                  STANDARDIZER_NAME, standardizer),
           NORMALIZER_NAME, normalizer)

\* A stage the caller of set_pipeline does not name
Omitted == "<omitted>"

\* set_pipeline, line 25: the parameters (standardizer, tokenizer, normalizer)
\* bound from the arguments given; each one defaults to DEFAULT.
SetPipelineArgs(given) == [i \in DOMAIN given |-> IF given[i] = Omitted THEN DEFAULT ELSE given[i]]

\* The mutant sets the stages the caller names and leaves the others as the
\* enclosing block has them.
ContextInBlock_Inherits(context, given) ==
    LET tok == IF given[2] = Omitted THEN context ELSE SetVar(context, TOKENIZER_NAME, given[2])
        std == IF given[1] = Omitted THEN tok ELSE SetVar(tok, STANDARDIZER_NAME, given[1])
    IN IF given[3] = Omitted THEN std ELSE SetVar(std, NORMALIZER_NAME, given[3])

\* set_pipeline(*given), lines 25-29: the context inside the block.
ContextInBlock(context, given) ==
    LET args == SetPipelineArgs(given)
    IN ContextOnEnter(context, args[1], args[2], args[3])

\* set_pipeline, lines 27-29: the Tokens the block keeps, and (for the claims)
\* the ambient names at the moment the block is entered and the arguments
\* the block was given.
FrameOnEnter(context, given) ==
    [tok_token |-> context[TOKENIZER_NAME],
     std_token |-> context[STANDARDIZER_NAME],
     norm_token |-> context[NORMALIZER_NAME],
     before |-> Ambient(context),
     given |-> given]

\* The mutant has no try/finally: a block left by an exception restores nothing.
ContextOnExit_NoFinally(context, frame, by_exception) ==
    IF by_exception THEN context
    ELSE ResetVar(ResetVar(ResetVar(context, TOKENIZER_NAME, frame.tok_token),
                           STANDARDIZER_NAME, frame.std_token),
                  NORMALIZER_NAME, frame.norm_token)

\* set_pipeline, lines 30-35: the finally clause runs on every way out.
ContextOnExit(context, frame, by_exception) ==
    ResetVar(ResetVar(ResetVar(context, TOKENIZER_NAME, frame.tok_token),
                      STANDARDIZER_NAME, frame.std_token),
             NORMALIZER_NAME, frame.norm_token)

\* The mutant keeps the three names in plain module globals, which all tasks
\* share.
BindInContext_Global(contexts, t, context) == [u \in Tasks |-> context]

\* lines 13-15: the names are ContextVars, so set() and reset() bind a value in
\* the context of the task that runs them and in no other.
BindInContext(contexts, t, context) == [contexts EXCEPT ![t] = context]

(***************************************************************************)
(* The keyword locator (core/keyword.py, core/text.py).                    *)
(***************************************************************************)
\* The raw token texts of the keyword model.
KeywordAlphabet == {"A", "a", "b"}

\* TokenList._raw_index_mapping and _normalized_index_mapping: text -> positions
IndexMapping(tokens, normalized) ==
    [text \in {TokenText(tokens[k], normalized) : k \in DOMAIN tokens} |->
        {k - 1 : k \in {x \in DOMAIN tokens : TokenText(tokens[x], normalized) = text}}]

\* The mutant answers a text the haystack lacks with every position it holds.
Indices_EveryPositionIfAbsent(mapping, text) ==
    IF text \in DOMAIN mapping THEN mapping[text] ELSE UNION {mapping[t] : t \in DOMAIN mapping}

\* TokenList.indices: mapping.get(text, set())
Indices(mapping, text) == IF text \in DOMAIN mapping THEN mapping[text] ELSE {}

\* The mutant shifts the positions the wrong way.
ShiftedPositions_Forward(positions, offset) == {q + offset : q \in positions}

\* keyword.py line 52: {p - offset for p in positions}
ShiftedPositions(positions, offset) == {q - offset : q \in positions}

\* keyword.py lines 50-54: the loop over kw_tokens[1:], from the given offset on.
RECURSIVE IntersectStarts(_, _, _, _)
IntersectStarts(starts, kw_texts, offset, mapping) ==
    IF offset >= Len(kw_texts) THEN starts
    ELSE LET narrowed == starts \cap ShiftedPositions(Indices(mapping, kw_texts[offset + 1]), offset)
         IN IF narrowed = {} THEN {}                                          \* line 54
            ELSE IntersectStarts(narrowed, kw_texts, offset + 1, mapping)

\* Keyword.find_in_tokens, lines 42-57, given the index mapping of the haystack.
FindInTokensResult(keyword, haystack, normalized, mapping) ==
    LET kw_texts == TokenTexts(keyword, normalized)
    IN IF Len(kw_texts) = 0 THEN <<>>                                         \* line 44
       ELSE LET starts == IntersectStarts(Indices(mapping, kw_texts[1]), kw_texts, 1, mapping)
                order == SortedSeq(starts)
            IN [k \in DOMAIN order |-> PySlice(haystack, order[k], order[k] + Len(kw_texts))]

\* The mutant narrows the candidate set in place (starts &= ...): the set is
\* the one the index holds for the keyword's first token.
MappingAfterSearch_InPlace(keyword, normalized, mapping) ==
    LET kw_texts == TokenTexts(keyword, normalized)
    IN IF Len(kw_texts) = 0 \/ kw_texts[1] \notin DOMAIN mapping THEN mapping
       ELSE [mapping EXCEPT ![kw_texts[1]] = IntersectStarts(@, kw_texts, 1, mapping)]

\* The index mapping of the haystack after find_in_tokens has run on it:
\* line 47 binds starts to the set the index holds, line 52 rebinds it to a
\* new set (starts & {...}) and line 57 sorts a copy, so the index is as it was.
MappingAfterSearch(keyword, normalized, mapping) == mapping

\* Keyword.find_in_ref, lines 75-79: the key of the result cache
FindInRefKey(context, normalized) ==
    <<Get(context, STANDARDIZER_NAME), Get(context, TOKENIZER_NAME),
      IF normalized THEN Get(context, NORMALIZER_NAME) ELSE NoneStr>>

\* cached_property / per-normalizer cache: not yet computed.
NotCached == [cached |-> FALSE, mapping |-> <<>>]

\* dict[key] = value
DictSet(dict, key, value) ==
    [k \in DOMAIN dict \cup {key} |-> IF k = key THEN value ELSE dict[k]]

(***************************************************************************)
(* The errors raised, by cause.                                            *)
(***************************************************************************)
ErrorCauses == {"no_registry", "name_missing", "function", "span", "rebind", "modify"}

NoErrors == [cause \in ErrorCauses |-> {}]

\* raise type(...), for the given cause
RecordError(types, cause, type) == [types EXCEPT ![cause] = @ \cup {type}]

(***************************************************************************)
(* The pipeline-cached properties (core/caching.py): Text.standardized and *)
(* Text.tokens through the descriptor, Token.normalized with its own code. *)
(* A registered pipeline function is a collaborator: applying the function *)
(* registered as name in a stage to arg is the term <<stage, name, arg>>.  *)
(***************************************************************************)
\* How often the model lets one pipeline function run for one instance,
\* property and stage names.
MaxCalls == 2
\* set_pipeline blocks around the reads are nested at most MaxCacheDepth deep.
MaxCacheDepth == 1

\* context.py lines 18-22: the stages in order, each with the attribute of
\* dataset.pipelines that holds its functions.
PIPELINE_STAGES ==
    <<<<STANDARDIZER_NAME, "standardizers">>,
      <<TOKENIZER_NAME, "tokenizers">>,
      <<NORMALIZER_NAME, "normalizers">>>>

PipelineAttrs == {PIPELINE_STAGES[i][2] : i \in DOMAIN PIPELINE_STAGES}

\* enumerate(PIPELINE_STAGES): the position of a stage, from 1
StagePosition(stage) == CHOOSE i \in DOMAIN PIPELINE_STAGES : PIPELINE_STAGES[i][1] = stage

\* The mutant keys a property by its own stage only.
STAGE_INDEX_OwnStageOnly(stage) ==
    [context_vars |-> <<stage>>, pipeline |-> PIPELINE_STAGES[StagePosition(stage)][2]]

\* caching.py lines 8-11, _STAGE_INDEX: the context variables up to and
\* including the stage, and the stage's attribute.
STAGE_INDEX(stage) ==
    LET i == StagePosition(stage)
    IN [context_vars |-> [k \in 1..i |-> PIPELINE_STAGES[k][1]],
        pipeline |-> PIPELINE_STAGES[i][2]]

\* line 45: tuple(cv.get() for cv in self._context_vars)
KeyParts(context, context_vars) == [k \in DOMAIN context_vars |-> Get(context, context_vars[k])]

\* line 46
CacheKey(key_parts) == IF Len(key_parts) = 1 THEN key_parts[1] ELSE key_parts

\* func(arg) for the function registered as name in the registry attribute
Apply(pipeline, name, arg) == <<pipeline, name, arg>>

\* What a registered function does when it is called: it returns its value,
\* or it raises.
RETURNS == "returns"
RAISES == "raises"

\* registry.get(pipeline_name, None) is a function that raises when called
Raises(reg, pipeline, name) == name \in DOMAIN reg[pipeline] /\ reg[pipeline][name] = RAISES

\* The instances read: a Text and a Token constructed with a parent that
\* belongs to a dataset, and a Text and a Token constructed without parent,
\* which set_source may give one later.
Instances == {"text", "token", "orphan_text", "orphan_token"}
IsText(instance) == instance \in {"text", "orphan_text"}

\* The parents set_source is given: one that leads to a dataset (an Example
\* of a dataset, a Text of such an Example) and one that does not.
InDataset == "parent in a dataset"
Loose == "parent without dataset"
Parents == {InDataset, Loose}

\* text.py lines 70-73, token.py lines 51-54: _src after construction
SourcesAtConstruction ==
    [instance \in Instances |-> IF instance \in {"text", "token"} THEN InDataset ELSE NoneStr]

\* text.py lines 100-118, token.py lines 61-78: set_source(src)
SetSourceOf(srcs, instance, parent) ==
    IF srcs[instance] # NoneStr
      THEN [raised |-> "ValueError", sources |-> srcs]                     \* lines 110, 71
      ELSE [raised |-> "none", sources |-> [srcs EXCEPT ![instance] = parent]]

\* instance._pipelines is not None: set_source found a dataset behind the
\* parent (text.py lines 115-118, token.py lines 76-78).
Attached(instance) == sources[instance] = InDataset
RawOf(instance) == IF IsText(instance) THEN "raw text" ELSE "raw token"

\* text.py lines 90-98, token.py lines 80-81
PropertiesOf(instance) == IF IsText(instance) THEN {"standardized", "tokens"} ELSE {"normalized"}

CacheSlots == {<<instance, prop>> : instance \in Instances, prop \in {"standardized", "tokens", "normalized"}}

\* text.py lines 67-68, token.py line 49: the caches start empty
EmptyCaches == [slot \in CacheSlots |-> <<>>]

\* The ambient names of the first k stages.
AmbientUpTo(context, k) == [i \in 1..k |-> Get(context, PIPELINE_STAGES[i][1])]

\* The invocation counter of tests: one more run of the function.
Bump(counters, x) == DictSet(counters, x, (IF x \in DOMAIN counters THEN counters[x] ELSE 0) + 1)

\* The mutant computes and returns, and stores nothing.
StoreEntry_Forgets(cache, cache_key, entry) == cache

\* caching.py line 66, token.py line 100: cache[cache_key] = result
StoreEntry(cache, cache_key, entry) == DictSet(cache, cache_key, entry)

\* The outcome of a read: the exception raised ("none" if none) and its cause,
\* the object returned, whether it came from the cache, and the caches and
\* counters after the read.  An object is its value, the number of the
\* function run that made it, and the ambient names it was made under.
NoEntry == [value |-> <<>>, obj |-> 0, under |-> <<>>]

Failure(type, cause, cs, cl) ==
    [raised |-> type, cause |-> cause, entry |-> NoEntry, hit |-> FALSE, caches |-> cs, calls |-> cl]

\* The outcome of a computation whose pipeline function raises.
FunctionRaised(cs, cl) ==
    [raised |-> "RuntimeError", cause |-> "function", value |-> <<>>, caches |-> cs, calls |-> cl]

\* The mutant marks the key as seen before it resolves and computes.
CachesOnFailure_KeepsKey(cs, slot, cache_key) ==
    [cs EXCEPT ![slot] = DictSet(@, cache_key, NoEntry)]

\* The caches after a read that raises: the exception leaves __get__ at line
\* 56, 62 or 65 (token.py: 95, 98, 99), before the assignment to the cache.
CachesOnFailure(cs, slot, cache_key) == cs

Computed(value, cs, cl) ==
    [raised |-> "none", cause |-> "none", value |-> value, caches |-> cs, calls |-> cl]

\* PipelineCachedProperty.__get__, lines 40-67.  computed[name] is the outcome
\* of self._compute(instance, func) for the function registered as name.
PipelineGet(instance, prop, stage, context, reg, cs, cl, computed) ==
    LET index == STAGE_INDEX(stage)
        key_parts == KeyParts(context, index.context_vars)
        cache_key == CacheKey(key_parts)
        cache == cs[<<instance, prop>>]
        pipeline_name == key_parts[Len(key_parts)]                        \* line 58
    IN IF cache_key \in DOMAIN cache                                      \* line 50
         THEN [raised |-> "none", cause |-> "none", entry |-> cache[cache_key],
               hit |-> TRUE, caches |-> cs, calls |-> cl]
       ELSE IF ~Attached(instance)                                        \* line 55
         THEN Failure("ValueError", "no_registry",
                      CachesOnFailure(cs, <<instance, prop>>, cache_key), cl)
       ELSE IF pipeline_name \notin DOMAIN reg[index.pipeline]            \* line 61
         THEN Failure("ValueError", "name_missing",
                      CachesOnFailure(cs, <<instance, prop>>, cache_key), cl)
       ELSE LET out == computed[pipeline_name]                            \* line 65
            IN IF out.raised # "none"
                 THEN Failure(out.raised, out.cause,
                              CachesOnFailure(out.caches, <<instance, prop>>, cache_key),
                              out.calls)
               ELSE LET counter == <<instance, prop, AmbientUpTo(context, StagePosition(stage))>>
                        calls_after == Bump(out.calls, counter)
                        entry == [value |-> out.value, obj |-> calls_after[counter],
                                  under |-> Ambient(context)]
                    IN [raised |-> "none", cause |-> "none", entry |-> entry, hit |-> FALSE,
                        caches |-> [out.caches EXCEPT ![<<instance, prop>>] =
                                        StoreEntry(cache, cache_key, entry)],
                        calls |-> calls_after]

\* Text.standardized, text.py lines 90-93
GetStandardized(instance, context, reg, cs, cl) ==
    PipelineGet(instance, "standardized", STANDARDIZER_NAME, context, reg, cs, cl,
                [name \in PipelineNames |->
                    IF Raises(reg, "standardizers", name)
                      THEN FunctionRaised(cs, cl)
                      ELSE Computed(Apply("standardizers", name, RawOf(instance)), cs, cl)])

\* Text.tokens, text.py lines 95-98: the tokenizer is applied to
\* self.standardized, which is read (and cached) on the way.
GetTokens(instance, context, reg, cs, cl) ==
    PipelineGet(instance, "tokens", TOKENIZER_NAME, context, reg, cs, cl,
                [name \in PipelineNames |->
                    LET std == GetStandardized(instance, context, reg, cs, cl)
                    IN IF std.raised # "none"
                         THEN [raised |-> std.raised, cause |-> std.cause, value |-> <<>>,
                               caches |-> std.caches, calls |-> std.calls]
                       ELSE IF Raises(reg, "tokenizers", name)
                         THEN FunctionRaised(std.caches, std.calls)
                         ELSE Computed(Apply("tokenizers", name, std.entry.value),
                                       std.caches, std.calls)])

\* The mutant keys a normalized token by the normalizer alone.
NormalizedKey_NormalizerOnly(context) == <<Get(context, NORMALIZER_NAME)>>

\* token.py lines 87-90
NormalizedKey(context) ==
    <<Get(context, STANDARDIZER_NAME), Get(context, TOKENIZER_NAME), Get(context, NORMALIZER_NAME)>>

\* Token.normalized, token.py lines 80-101
GetNormalized(instance, context, reg, cs, cl) ==
    LET pipeline_key == NormalizedKey(context)
        normalizer_name == Get(context, NORMALIZER_NAME)
        cache == cs[<<instance, "normalized">>]
    IN IF pipeline_key \in DOMAIN cache                                   \* line 92
         THEN [raised |-> "none", cause |-> "none", entry |-> cache[pipeline_key],
               hit |-> TRUE, caches |-> cs, calls |-> cl]
       ELSE IF ~Attached(instance)                                        \* line 94
         THEN Failure("ValueError", "no_registry",
                      CachesOnFailure(cs, <<instance, "normalized">>, pipeline_key), cl)
       ELSE IF normalizer_name \notin DOMAIN reg["normalizers"]           \* line 97
         THEN Failure("ValueError", "name_missing",
                      CachesOnFailure(cs, <<instance, "normalized">>, pipeline_key), cl)
       ELSE IF Raises(reg, "normalizers", normalizer_name)                \* line 99
         THEN Failure("RuntimeError", "function",
                      CachesOnFailure(cs, <<instance, "normalized">>, pipeline_key), cl)
       ELSE LET counter == <<instance, "normalized", AmbientUpTo(context, 3)>>
                calls_after == Bump(cl, counter)
                entry == [value |-> Apply("normalizers", normalizer_name, RawOf(instance)),
                          obj |-> calls_after[counter], under |-> Ambient(context)]
            IN [raised |-> "none", cause |-> "none", entry |-> entry, hit |-> FALSE,
                caches |-> [cs EXCEPT ![<<instance, "normalized">>] =
                                StoreEntry(cache, pipeline_key, entry)],
                calls |-> calls_after]

\* instance.<prop>, read under the given context
ReadOutcome(instance, prop, context, reg, cs, cl) ==
    CASE prop = "standardized" -> GetStandardized(instance, context, reg, cs, cl)
      [] prop = "tokens" -> GetTokens(instance, context, reg, cs, cl)
      [] prop = "normalized" -> GetNormalized(instance, context, reg, cs, cl)

\* A registry attribute with a working function under every name, under the
\* default name alone, and with a default function that raises.
AllWorking == [name \in PipelineNames |-> RETURNS]
DefaultAlone == [name \in {DEFAULT} |-> RETURNS]
DefaultRaises == [name \in PipelineNames |-> IF name = DEFAULT THEN RAISES ELSE RETURNS]

\* The mutant answers a hit without reading the entry.
FetchEntry_Unread(cache, cache_key) == NoEntry

\* caching.py line 51: return cache[cache_key]
FetchEntry(cache, cache_key) == cache[cache_key]

\* caching.py lines 45-46 for a property of a Text
PropertyKey(prop, context) ==
    LET stage == IF prop = "standardized" THEN STANDARDIZER_NAME ELSE TOKENIZER_NAME
    IN CacheKey(KeyParts(context, STAGE_INDEX(stage).context_vars))

\* caching.py lines 54-65 for a Text attached to a dataset whose registry
\* holds the active names: result = self._compute(instance, func), one run of
\* the standardizer on the raw text (text.py line 93) or of the tokenizer on
\* the standardized text its body has read (text.py line 98).  The object
\* made and the counters after the run.
ComputeResult(instance, prop, context, input, cl) ==
    LET stage == IF prop = "standardized" THEN STANDARDIZER_NAME ELSE TOKENIZER_NAME
        value == Apply(STAGE_INDEX(stage).pipeline, Get(context, stage), input)
        counter == <<instance, prop, AmbientUpTo(context, StagePosition(stage))>>
        calls_after == Bump(cl, counter)
    IN [entry |-> [value |-> value, obj |-> calls_after[counter], under |-> Ambient(context)],
        calls |-> calls_after]

(***************************************************************************)
(* metric_value.__get__ (metrics/base.py).                                 *)
(***************************************************************************)
\* The metric objects of the model; the computation of one may read the
\* value of the other, as KWER_._get_alignment reads the Levenshtein alignment.
Metrics == {"kwer", "levenshtein"}

\* obj.__dict__ without the entry of the metric value
NotComputed == [metric |-> "none", under |-> <<>>]
NoMetricRead ==
    [metric |-> "none", outcome |-> "none", before |-> <<>>, after |-> <<>>,
     cached |-> FALSE, nested |-> FALSE]

\* self.func(obj): the value depends on the metric and on the ambient
\* configuration the computation reads its texts and tokens under.
MetricFunc(m, context) == [metric |-> m, under |-> Ambient(context)]

\* The mutant computes under the ambient configuration of the caller.
ComputationContext_OfCaller(context, pipeline) == context

\* base.py line 57: with set_pipeline(*obj.pipeline)
ComputationContext(context, pipeline) == ContextInBlock(context, pipeline)

(***************************************************************************)
(* KWER_.num_errors (metrics/kwer.py).                                     *)
(***************************************************************************)
\* kwer.py lines 33-37: the ops of one occurrence hold an op that is no Match.
OccurrenceHasError(al_ops, tokens) ==
    LET out == IF Len(tokens) = 1
                 THEN OpsFromRefIndexOutcome(al_ops, tokens[1].index, NoneIdx)
                 ELSE OpsFromRefIndexOutcome(al_ops, tokens[1].index, tokens[Len(tokens)].index)
    IN \E k \in DOMAIN out.ops : out.ops[k].type # MATCH

\* kwer.py lines 27-39: the occurrences with an error, summed over the keywords.
RECURSIVE NumErrors(_, _, _)
NumErrors(al_ops, ref, keywords) ==
    IF keywords = <<>> THEN 0
    ELSE LET ref_token_lists ==
                 FindInTokensResult(keywords[1], ref, TRUE, IndexMapping(ref, TRUE))
         IN Cardinality({k \in DOMAIN ref_token_lists :
                             OccurrenceHasError(al_ops, ref_token_lists[k])})
            + NumErrors(al_ops, ref, SubSeq(keywords, 2, Len(keywords)))

\* kwer.py lines 20-39, for one iteration order of each match set of the
\* builder: how the read of num_errors ends, the value returned and the
\* alignment line 26 got.  _get_alignment (lines 12-18) reads the alignment
\* of the example's Levenshtein metric, which _get_ops computes.
NumErrorsOutcome(params, ref, hyp, editops, keywords, ref_order, hyp_order) ==
    IF ~params.has_vocab
      THEN [raised |-> "none", value |-> 0, alignment |-> <<>>]            \* lines 24-25
      ELSE LET out == GetOpsOutcome(ref, hyp, params.normalized, Resolved, editops,
                                    ref_order, hyp_order)                  \* line 26
           IN IF out.raised # "none"
                THEN [raised |-> out.raised, value |-> NoneIdx, alignment |-> <<>>]
                ELSE [raised |-> "none", value |-> NumErrors(out.al.ops, ref, keywords),
                      alignment |-> out.al.ops]

\* The registries the model runs with: every name registered in every stage,
\* the default name alone, or a tokenizer and a normalizer that raise.
RegistryShapes ==
    {[attr \in PipelineAttrs |-> AllWorking],
     [attr \in PipelineAttrs |-> DefaultAlone],
     [attr \in PipelineAttrs |-> IF attr = "standardizers" THEN AllWorking ELSE DefaultRaises]}

\* The instance one run reads.
SubjectSets == {{instance} : instance \in Instances}

\* The set_pipeline calls of the cache model: the default names, or one stage
\* switched to "alt".
CacheConfigs ==
    {<<DEFAULT, DEFAULT, DEFAULT>>, <<"alt", DEFAULT, DEFAULT>>,
     <<DEFAULT, "alt", DEFAULT>>, <<DEFAULT, DEFAULT, "alt">>}

NoRead == [instance |-> "none", prop |-> "none", ambient |-> <<>>, raised |-> "none",
           cause |-> "none", entry |-> NoEntry, hit |-> FALSE, retry |-> FALSE]

(***************************************************************************)
(* The life of an Alignment (alignment/alignment.py): construction,        *)
(* set_source, slicing, + and the list methods append and extend.          *)
(***************************************************************************)
\* The Alignments of the lifecycle model hold at most MaxAlignLen ops.
MaxAlignLen == 2

OtherExample == "example2"
Examples == {TheExample, OtherExample}

\* The ops the Alignments of the lifecycle model are made of, one of each kind.
LifecycleOps ==
    {IndexOp(MATCH, 0, 0), IndexOp(SUBSTITUTE, 1, 1), IndexOp(INSERT, NoneIdx, 2),
     IndexOp(DELETE, 2, NoneIdx)}

\* lines 55-78
num_matches(al) == al.op_counts[MATCH]
num_substitutions(al) == al.op_counts[SUBSTITUTE]
num_insertions(al) == al.op_counts[INSERT]
num_deletions(al) == al.op_counts[DELETE]
num_edits(al) == num_substitutions(al) + num_insertions(al) + num_deletions(al)

\* The mutant binds the new example whatever was bound before.
SetSourceOutcome_Rebinds(al, example) == [raised |-> "none", al |-> [al EXCEPT !.src = example]]

\* set_source, lines 169-180
SetSourceOutcome(al, example) ==
    IF al.src # NoExample
      THEN [raised |-> "ValueError", al |-> al]                            \* line 179
      ELSE [raised |-> "none", al |-> [al EXCEPT !.src = example]]

\* The mutant slices the ops and carries the counts of the whole over.
GetSlice_KeepsCounts(al, lo, hi) ==
    [ops |-> PySlice(al.ops, lo, hi), op_counts |-> al.op_counts, src |-> NoExample,
     op_srcs |-> PySlice(al.op_srcs, lo, hi)]

\* __getitem__ with a slice, lines 240-243: a new Alignment without source.
\* The ops of an Alignment all have a parent, so the constructor does not raise.
GetSlice(al, lo, hi) ==
    NewAlignment(PySlice(al.ops, lo, hi), PySlice(al.op_srcs, lo, hi), NoExample).al

\* __add__, lines 245-253: a new Alignment without source, whatever the
\* sources of the operands.  The ops of both operands have a parent.
AddOutcome(al, other) ==
    NewAlignment(al.ops \o other.ops, al.op_srcs \o other.op_srcs, NoExample)

\* alignment.append(op), alignment.extend(ops): Alignment is a tuple (line 21)
\* and defines neither, so the attribute lookup fails.
ModifyOutcome(al, new_ops) == [raised |-> "AttributeError", al |-> al]

NoCall == [name |-> "none", raised |-> "none", arg |-> <<>>]

(***************************************************************************)
(* The state machines.  Each specification runs one component and leaves  *)
(* the variables of the others idle.                                      *)
(***************************************************************************)
\* The variables of a component that does not run.
IdleIndex ==
    /\ self_ops = <<>>
    /\ op_counts = [t \in OpTypes |-> 0]
    /\ src = NoExample
    /\ call_args = <<>>
    /\ call_raised = "none"
    /\ call_result = <<>>

NoneLeft == [task |-> "none", by_exception |-> FALSE, depth |-> 0, before |-> <<>>]

IdlePipeline ==
    /\ active_tasks = {}
    /\ ctx = [t \in Tasks |-> EmptyContext]
    /\ frames = [t \in Tasks |-> <<>>]
    /\ raising = [t \in Tasks |-> FALSE]
    /\ left = NoneLeft

IdleKeyword ==
    /\ token_list = <<>>
    /\ kw_tokens = <<>>
    /\ raw_index_cache = NotCached
    /\ normalized_index_cache = <<>>
    /\ find_args = <<>>
    /\ find_result = <<>>

IdleBuilder ==
    /\ params_normalized = TRUE /\ build_pipelines = Resolved
    /\ ref_tokens = <<>> /\ hyp_tokens = <<>> /\ rapidfuzz_ops = <<>>
    /\ build_state = "idle" /\ bewer_ops = <<>> /\ alignment = <<>> /\ alignment_src = NoExample

IdleCache ==
    /\ registry = [attr \in PipelineAttrs |-> <<>>]
    /\ subjects = {}
    /\ sources = SourcesAtConstruction
    /\ caches = EmptyCaches
    /\ calls = <<>>
    /\ last_read = NoRead

IdleLifecycle ==
    /\ al_self = NewAlignment(<<>>, <<>>, NoExample).al
    /\ al_other = NewAlignment(<<>>, <<>>, NoExample).al
    /\ al_call = NoCall

IdleLookup == lookup = NoLookup

IdleOp == op_args = NoArguments /\ op_made = NotMade

IdleFind == cache_find_in_ref = <<>>

IdleRace ==
    /\ thread_prop = "none"
    /\ thread_pc = [t \in Tasks |-> "idle"]
    /\ thread_result = [t \in Tasks |-> NoEntry]
    /\ thread_inner = [t \in Tasks |-> NoEntry]

IdleKwer ==
    /\ kwer_params = [normalized |-> TRUE, has_vocab |-> FALSE]
    /\ kwer_ref = <<>> /\ kwer_hyp = <<>> /\ kwer_editops = <<>>
    /\ kwer_keywords = <<>> /\ kwer_alignment = <<>>
    /\ kwer_num_errors = NoneIdx /\ kwer_raised = "not read"

IdleMetric ==
    /\ metric_pipeline = [m \in Metrics |-> <<DEFAULT, DEFAULT, DEFAULT>>]
    /\ metric_dict = [m \in Metrics |-> NotComputed]
    /\ metric_stack = <<>>
    /\ metric_read = NoMetricRead

IdleLater == IdleLookup /\ IdleOp /\ IdleFind /\ IdleRace /\ IdleKwer /\ IdleMetric

IdleNewer == IdleCache /\ IdleLifecycle /\ error_types = NoErrors /\ IdleLater

\* ---- the builder: the inputs are drawn in Init, GetOps runs _get_ops on them ----
\* params.normalized, and what the texts find when they resolve their pipelines
BuildEnvs == BOOLEAN \X {Resolved, NoPipelines, NormalizerMissing}

\* line 68: the scripts the primitive can hand back for the token texts
\* chosen at lines 61-66, those of a faulty primitive included; no script
\* when the choice raised, since line 68 is not reached then.
EditScripts(ref, hyp, normalized, pipelines) ==
    IF SelectTokensError(ref, hyp, normalized, pipelines) # "none"
      THEN {<<>>}
      ELSE ValidScripts(TokenTexts(ref, normalized), TokenTexts(hyp, normalized))
             \cup CorruptedScripts(TokenTexts(ref, normalized), TokenTexts(hyp, normalized))

InitBuilder ==
    /\ IdleIndex /\ IdlePipeline /\ IdleKeyword /\ IdleNewer
    /\ \E env \in BuildEnvs : params_normalized = env[1] /\ build_pipelines = env[2]
    /\ \E r \in SeqsUpTo(BuilderAlphabet, MaxRef), h \in SeqsUpTo(HypAlphabet, MaxHyp) :
         /\ ref_tokens = TokenListFromTexts(r)
         /\ hyp_tokens = TokenListFromTexts(h)
         /\ rapidfuzz_ops \in EditScripts(ref_tokens, hyp_tokens, params_normalized,
                                          build_pipelines)
    /\ build_state = "input"
    /\ bewer_ops = <<>>
    /\ alignment = <<>>
    /\ alignment_src = NoExample

GetOps ==
    /\ build_state = "input"
    /\ \E ref_order \in IterationOrders(MatchRefIndices(ref_tokens, rapidfuzz_ops)),
          hyp_order \in IterationOrders(MatchHypIndices(hyp_tokens, rapidfuzz_ops)) :
         LET out == GetOpsOutcome(ref_tokens, hyp_tokens, params_normalized, build_pipelines,
                                  rapidfuzz_ops, ref_order, hyp_order)
         IN /\ build_state' = IF out.raised = "none" THEN "built" ELSE out.raised
            /\ bewer_ops' = out.bewer_ops
            /\ alignment' = out.al.ops
            /\ alignment_src' = out.al.src
    /\ UNCHANGED <<params_normalized, build_pipelines, ref_tokens, hyp_tokens, rapidfuzz_ops>>
    /\ UNCHANGED <<indexVars, pipelineVars, keywordVars, newerVars>>

NextBuilder == GetOps

SpecBuilder == InitBuilder /\ [][NextBuilder]_vars

\* ---- the builder on the edge cases: one of the two sides is empty ----
\* The index an entry does not use: the position rapidfuzz reports (0, the
\* other side being empty), or None.
UnusedIndex == {0, NoneIdx}

\* One insert per hypothesis token, one delete per reference token, in any order.
AllInsertScripts(hyp, unused) ==
    IterationOrders({<<"insert", unused, j>> : j \in Range(Len(hyp))})

AllDeleteScripts(ref, unused) ==
    IterationOrders({<<"delete", i, unused>> : i \in Range(Len(ref))})

InitEdge ==
    /\ IdleIndex /\ IdlePipeline /\ IdleKeyword /\ IdleNewer
    /\ params_normalized \in BOOLEAN
    /\ build_pipelines = Resolved
    /\ \E unused \in UnusedIndex :
         \/ \E h \in SeqsUpTo(HypAlphabet, MaxHyp) :
               /\ ref_tokens = <<>>
               /\ hyp_tokens = TokenListFromTexts(h)
               /\ rapidfuzz_ops \in AllInsertScripts(h, unused)
         \/ \E r \in SeqsUpTo(BuilderAlphabet, MaxRef) :
               /\ ref_tokens = TokenListFromTexts(r)
               /\ hyp_tokens = <<>>
               /\ rapidfuzz_ops \in AllDeleteScripts(r, unused)
    /\ build_state = "input"
    /\ bewer_ops = <<>>
    /\ alignment = <<>>
    /\ alignment_src = NoExample

SpecEdge == InitEdge /\ [][NextBuilder]_vars

\* ---- an Alignment and ops_from_ref_index ----
\* Alignment(iterable, src): __init__, lines 35-53
InitIndex ==
    /\ IdleBuilder
    /\ \E shapes \in SeqsUpTo(OpShapes, MaxOps) :
          self_ops = [k \in DOMAIN shapes |-> IndexOp(shapes[k][1], shapes[k][2], k - 1)]
    /\ op_counts = CountOperations(self_ops)
    /\ src \in {NoExample, TheExample}
    /\ call_args = <<>>
    /\ call_raised = "none"
    /\ call_result = <<>>
    /\ IdlePipeline /\ IdleKeyword /\ IdleNewer

\* alignment.ops_from_ref_index(start, stop); stop = NoneIdx is stop omitted.
OpsFromRefIndex ==
    /\ build_state = "idle"
    /\ call_args = <<>>
    /\ \E start \in 0..(MaxRefIdx + 1), stop \in {NoneIdx} \cup 0..(MaxRefIdx + 1) :
         LET out == OpsFromRefIndexOutcome(self_ops, start, stop)
         IN /\ call_args' = <<start, stop>>
            /\ call_raised' = out.raised
            /\ call_result' = out.ops
    /\ UNCHANGED <<self_ops, op_counts, src>>
    /\ UNCHANGED <<builderVars, pipelineVars, keywordVars, newerVars>>

\* The caller is done with the outcome of the call; the next call can follow.
CallReturned ==
    /\ build_state = "idle"
    /\ call_args # <<>>
    /\ call_args' = <<>>
    /\ call_raised' = "none"
    /\ call_result' = <<>>
    /\ UNCHANGED <<self_ops, op_counts, src>>
    /\ UNCHANGED <<builderVars, pipelineVars, keywordVars, newerVars>>

NextIndex == OpsFromRefIndex \/ CallReturned

SpecIndex == InitIndex /\ [][NextIndex]_vars

\* ---- an Alignment and its character-index lookups ----
\* The Alignments looked into hold at most MaxLookupOps ops.
MaxLookupOps == 3

\* Alignment(iterable): __init__, lines 35-53
InitLookup ==
    /\ IdleBuilder
    /\ \E shapes \in SeqsUpTo(OpShapes, MaxLookupOps) :
          self_ops = [k \in DOMAIN shapes |-> IndexOp(shapes[k][1], shapes[k][2], k - 1)]
    /\ op_counts = CountOperations(self_ops)
    /\ src = NoExample
    /\ call_args = <<>>
    /\ call_raised = "none"
    /\ call_result = <<>>
    /\ IdlePipeline /\ IdleKeyword /\ IdleNewer

\* The character indices the lookups are asked about: every end of a span
\* the model can hold, and one past the last.
CharIndices == 0..(2 * MaxRefIdx + 2)

\* alignment.start_index_to_op(char_index)
StartIndexToOpCall ==
    /\ build_state = "idle"
    /\ lookup = NoLookup
    /\ \E c \in CharIndices :
         lookup' = [name |-> "start_index_to_op", char_index |-> c,
                    result |-> StartIndexToOp(self_ops, c)]
    /\ UNCHANGED <<indexVars, builderVars, pipelineVars, keywordVars>>
    /\ UNCHANGED <<cacheVars, lifecycleVars, errorVars, opVars, findVars, raceVars, kwerVars, metricVars>>

\* alignment.end_index_to_op(char_index)
EndIndexToOpCall ==
    /\ build_state = "idle"
    /\ lookup = NoLookup
    /\ \E c \in CharIndices :
         lookup' = [name |-> "end_index_to_op", char_index |-> c,
                    result |-> EndIndexToOp(self_ops, c)]
    /\ UNCHANGED <<indexVars, builderVars, pipelineVars, keywordVars>>
    /\ UNCHANGED <<cacheVars, lifecycleVars, errorVars, opVars, findVars, raceVars, kwerVars, metricVars>>

\* The caller is done with the op the lookup returned.
LookupReturned ==
    /\ build_state = "idle"
    /\ lookup # NoLookup
    /\ lookup' = NoLookup
    /\ UNCHANGED <<indexVars, builderVars, pipelineVars, keywordVars>>
    /\ UNCHANGED <<cacheVars, lifecycleVars, errorVars, opVars, findVars, raceVars, kwerVars, metricVars>>

NextLookup == StartIndexToOpCall \/ EndIndexToOpCall \/ LookupReturned

SpecLookup == InitLookup /\ [][NextLookup]_vars



\* ---- set_pipeline ----
\* with set_pipeline(standardizer, tokenizer, normalizer): the block is entered,
\* with the three names drawn from configs, at most depth blocks deep.
EnterSetPipelineWith(t, configs, depth) ==
    /\ ~raising[t]
    /\ Len(frames[t]) < depth
    /\ \E config \in configs :
         /\ frames' = [frames EXCEPT ![t] = Append(@, FrameOnEnter(ctx[t], config))]
         /\ ctx' = BindInContext(ctx, t, ContextInBlock(ctx[t], config))
    /\ UNCHANGED <<active_tasks, raising, left>>

\* The arguments a caller gives for a stage: none, or a name of its own.
PipelineArgs == {Omitted, "alt"}

EnterSetPipeline(t) ==
    EnterSetPipelineWith(t, PipelineArgs \X PipelineArgs \X PipelineArgs, MaxDepth)

\* The body of the innermost block raises.
RaiseInBlock(t) ==
    /\ ~raising[t]
    /\ Len(frames[t]) > 0
    /\ raising' = [raising EXCEPT ![t] = TRUE]
    /\ UNCHANGED <<active_tasks, ctx, frames, left>>

\* The innermost block is left: by its body completing, or by the exception
\* that is propagating, which goes on propagating in the enclosing block.
LeaveSetPipeline(t) ==
    /\ Len(frames[t]) > 0
    /\ LET frame == frames[t][Len(frames[t])]
       IN /\ ctx' = BindInContext(ctx, t, ContextOnExit(ctx[t], frame, raising[t]))
          /\ left' = [task |-> t, by_exception |-> raising[t],
                      depth |-> Len(frames[t]), before |-> frame.before]
    /\ frames' = [frames EXCEPT ![t] = SubSeq(@, 1, Len(@) - 1)]
    /\ UNCHANGED <<active_tasks, raising>>

\* The propagating exception is caught by a handler around the blocks left so far.
CatchException(t) ==
    /\ raising[t]
    /\ raising' = [raising EXCEPT ![t] = FALSE]
    /\ UNCHANGED <<active_tasks, ctx, frames, left>>

InitPipeline ==
    /\ IdleBuilder /\ IdleIndex /\ IdleKeyword /\ IdleNewer
    /\ active_tasks = {"t1"}
    /\ ctx = [t \in Tasks |-> EmptyContext]
    /\ frames = [t \in Tasks |-> <<>>]
    /\ raising = [t \in Tasks |-> FALSE]
    /\ left = NoneLeft

NextPipeline ==
    \E t \in active_tasks :
        /\ \/ EnterSetPipeline(t)
           \/ RaiseInBlock(t)
           \/ LeaveSetPipeline(t)
           \/ CatchException(t)
        /\ UNCHANGED <<builderVars, indexVars, keywordVars, newerVars>>

SpecPipeline == InitPipeline /\ [][NextPipeline]_vars

\* ---- the keyword locator ----
InitKeyword ==
    /\ IdleBuilder /\ IdleIndex /\ IdlePipeline /\ IdleNewer
    /\ \E h \in SeqsUpTo(KeywordAlphabet, MaxHaystack), k \in SeqsUpTo(KeywordAlphabet, MaxKeyword) :
         /\ token_list = TokenListFromTexts(h)
         /\ kw_tokens = TokenListFromTexts(k)
    /\ raw_index_cache = NotCached
    /\ normalized_index_cache = <<>>
    /\ find_args = <<>>
    /\ find_result = <<>>

\* The index mapping a search in the given mode reads through
\* TokenList.indices (text.py lines 252-284): the cached one, or on first use
\* the one computed from the tokens.
SearchMapping(normalized) ==
    LET key == Get(ctx["t1"], NORMALIZER_NAME)
    IN IF normalized
         THEN IF key \in DOMAIN normalized_index_cache
                THEN normalized_index_cache[key]
                ELSE IndexMapping(token_list, TRUE)
         ELSE IF raw_index_cache.cached
                THEN raw_index_cache.mapping
                ELSE IndexMapping(token_list, FALSE)

\* What find_in_tokens leaves in the index caches of the haystack: the
\* mapping is computed on first use and kept.
IndexCachesAfterSearch(normalized) ==
    LET key == Get(ctx["t1"], NORMALIZER_NAME)
        consulted == Len(kw_tokens) > 0
        after == MappingAfterSearch(kw_tokens, normalized, SearchMapping(normalized))
    IN /\ normalized_index_cache' =
            IF consulted /\ normalized
              THEN DictSet(normalized_index_cache, key, after)
              ELSE normalized_index_cache
       /\ raw_index_cache' =
            IF consulted /\ ~normalized
              THEN [cached |-> TRUE, mapping |-> after]
              ELSE raw_index_cache

\* keyword.find_in_tokens(token_list, normalized), run by task t1.
FindInTokens ==
    /\ find_args = <<>>
    /\ \E normalized \in BOOLEAN :
         /\ find_args' = <<normalized>>
         /\ find_result' = FindInTokensResult(kw_tokens, token_list, normalized,
                                              SearchMapping(normalized))
         /\ IndexCachesAfterSearch(normalized)
    /\ UNCHANGED <<token_list, kw_tokens>>
    /\ UNCHANGED <<builderVars, indexVars, pipelineVars, newerVars>>

\* keyword.find_in_ref(normalized), run by task t1 on a keyword whose source
\* example has token_list as its reference tokens (lines 75-82).
FindInRef ==
    /\ find_args = <<>>
    /\ \E normalized \in BOOLEAN :
         LET cache_key == FindInRefKey(ctx["t1"], normalized)
         IN /\ find_args' = <<normalized>>
            /\ IF cache_key \in DOMAIN cache_find_in_ref
                 THEN /\ find_result' = cache_find_in_ref[cache_key]
                      /\ UNCHANGED <<cache_find_in_ref, normalized_index_cache, raw_index_cache>>
                 ELSE LET found == FindInTokensResult(kw_tokens, token_list, normalized,
                                                      SearchMapping(normalized))
                      IN /\ cache_find_in_ref' = DictSet(cache_find_in_ref, cache_key, found)
                         /\ find_result' = found
                         /\ IndexCachesAfterSearch(normalized)
    /\ UNCHANGED <<token_list, kw_tokens>>
    /\ UNCHANGED <<builderVars, indexVars, pipelineVars>>
    /\ UNCHANGED <<cacheVars, lifecycleVars, errorVars, lookupVars, opVars, raceVars, kwerVars, metricVars>>

\* The caller is done with the result; the next search can follow.
FindReturned ==
    /\ find_args # <<>>
    /\ find_args' = <<>>
    /\ find_result' = <<>>
    /\ UNCHANGED <<token_list, kw_tokens, raw_index_cache, normalized_index_cache>>
    /\ UNCHANGED <<builderVars, indexVars, pipelineVars, newerVars>>

NextKeyword == FindInTokens \/ FindInRef \/ FindReturned

SpecKeyword == InitKeyword /\ [][NextKeyword]_vars

\* ---- the construction of an Op ----
InitOp ==
    /\ IdleBuilder /\ IdleIndex /\ IdlePipeline /\ IdleKeyword
    /\ IdleCache /\ IdleLifecycle /\ error_types = NoErrors
    /\ IdleLookup /\ IdleFind /\ IdleRace /\ IdleKwer /\ IdleMetric
    /\ op_args \in OpArguments
    /\ op_made = NotMade

\* Op(**op_args)
ConstructOp ==
    /\ op_args # NoArguments
    /\ op_made = NotMade
    /\ op_made' = NewOp(op_args)
    /\ UNCHANGED op_args
    /\ UNCHANGED <<builderVars, indexVars, pipelineVars, keywordVars>>
    /\ UNCHANGED <<cacheVars, lifecycleVars, errorVars, lookupVars, findVars, raceVars, kwerVars, metricVars>>

NextOp == ConstructOp

SpecOp == InitOp /\ [][NextOp]_vars

\* ---- reads of the pipeline-cached properties, by task t1, inside and ----
\* ---- outside set_pipeline blocks                                     ----
InitCache ==
    /\ IdleBuilder /\ IdleIndex /\ IdleKeyword /\ IdleLifecycle /\ IdleLater
    /\ active_tasks = {"t1"}
    /\ ctx = [t \in Tasks |-> EmptyContext]
    /\ frames = [t \in Tasks |-> <<>>]
    /\ raising = [t \in Tasks |-> FALSE]
    /\ left = NoneLeft
    /\ registry \in RegistryShapes
    /\ subjects \in SubjectSets
    /\ sources = SourcesAtConstruction
    /\ caches = EmptyCaches
    /\ calls = <<>>
    /\ last_read = NoRead
    /\ error_types = NoErrors

\* instance.standardized, instance.tokens or instance.normalized is read.
ReadProperty ==
    /\ \A x \in DOMAIN calls : calls[x] < MaxCalls
    /\ \E instance \in subjects :
         \E prop \in PropertiesOf(instance) :
            LET out == ReadOutcome(instance, prop, ctx["t1"], registry, caches, calls)
            IN /\ caches' = out.caches
               /\ calls' = out.calls
               /\ last_read' = [instance |-> instance, prop |-> prop,
                                ambient |-> Ambient(ctx["t1"]), raised |-> out.raised,
                                cause |-> out.cause, entry |-> out.entry, hit |-> out.hit,
                                retry |-> /\ last_read.raised # "none"
                                          /\ last_read.instance = instance
                                          /\ last_read.prop = prop
                                          /\ last_read.ambient = Ambient(ctx["t1"])]
               /\ error_types' = IF out.raised = "none" THEN error_types
                                 ELSE RecordError(error_types, out.cause, out.raised)
    /\ UNCHANGED <<registry, subjects, sources>>
    /\ UNCHANGED <<builderVars, indexVars, pipelineVars, keywordVars, lifecycleVars, laterVars>>

\* The registries of the dataset are completed: every name gets a working
\* function (registry[name] = func).
UpdateRegistry ==
    /\ \E attr \in PipelineAttrs : registry[attr] # AllWorking
    /\ registry' = [attr \in PipelineAttrs |-> AllWorking]
    /\ UNCHANGED <<subjects, sources, caches, calls, last_read>>
    /\ UNCHANGED <<builderVars, indexVars, pipelineVars, keywordVars>>
    /\ UNCHANGED <<lifecycleVars, errorVars, laterVars>>

\* instance.set_source(parent)
SetSourceOfInstance ==
    /\ \E instance \in subjects, parent \in Parents :
         LET out == SetSourceOf(sources, instance, parent)
         IN /\ sources' = out.sources
            /\ error_types' = IF out.raised = "none" THEN error_types
                              ELSE RecordError(error_types, "rebind", out.raised)
    /\ UNCHANGED <<registry, subjects, caches, calls, last_read>>
    /\ UNCHANGED <<builderVars, indexVars, pipelineVars, keywordVars>>
    /\ UNCHANGED <<lifecycleVars, laterVars>>

NextCache ==
    \/ /\ \/ EnterSetPipelineWith("t1", CacheConfigs, MaxCacheDepth)
          \/ LeaveSetPipeline("t1")
       /\ UNCHANGED <<builderVars, indexVars, keywordVars, newerVars>>
    \/ ReadProperty
    \/ UpdateRegistry
    \/ SetSourceOfInstance

SpecCache == InitCache /\ [][NextCache]_vars

\* ---- two threads read the same property of the same Text for the first ----
\* ---- time, each inside a set_pipeline block with the same names        ----
InitRace ==
    /\ IdleBuilder /\ IdleIndex /\ IdleKeyword /\ IdleLifecycle
    /\ IdleLookup /\ IdleOp /\ IdleFind /\ IdleKwer /\ IdleMetric
    /\ active_tasks = Tasks
    /\ \E config \in CacheConfigs :
         /\ ctx = [t \in Tasks |-> ContextInBlock(EmptyContext, config)]
         /\ frames = [t \in Tasks |-> <<FrameOnEnter(EmptyContext, config)>>]
    /\ raising = [t \in Tasks |-> FALSE]
    /\ left = NoneLeft
    /\ registry = [attr \in PipelineAttrs |-> AllWorking]
    /\ subjects = {"text"}
    /\ sources = SourcesAtConstruction
    /\ caches = EmptyCaches
    /\ calls = <<>>
    /\ last_read = NoRead
    /\ error_types = NoErrors
    /\ thread_prop \in PropertiesOf("text")
    /\ thread_pc = [t \in Tasks |-> "start"]
    /\ thread_result = [t \in Tasks |-> NoEntry]
    /\ thread_inner = [t \in Tasks |-> NoEntry]

\* The read a thread is in: the read of thread_prop, or the read of
\* self.standardized that the body of tokens makes (text.py line 98).
InnerSteps == {"inner_start", "inner_hit", "inner_miss", "inner_computed"}
ReadingProp(t) == IF thread_pc[t] \in InnerSteps THEN "standardized" ELSE thread_prop

\* lines 45-50: the key is built and looked for in the cache.
ThreadChecks(t) ==
    /\ thread_pc[t] \in {"start", "inner_start"}
    /\ LET found == PropertyKey(ReadingProp(t), ctx[t]) \in DOMAIN caches[<<"text", ReadingProp(t)>>]
       IN thread_pc' = [thread_pc EXCEPT ![t] =
              IF thread_pc[t] = "start"
                THEN (IF found THEN "hit" ELSE "miss")
                ELSE (IF found THEN "inner_hit" ELSE "inner_miss")]
    /\ UNCHANGED <<thread_prop, thread_result, thread_inner, cacheVars>>

\* line 51: the entry found is returned, to the caller or to the body of tokens.
ThreadFetches(t) ==
    /\ thread_pc[t] \in {"hit", "inner_hit"}
    /\ LET entry == FetchEntry(caches[<<"text", ReadingProp(t)>>], PropertyKey(ReadingProp(t), ctx[t]))
       IN IF thread_pc[t] = "hit"
            THEN /\ thread_result' = [thread_result EXCEPT ![t] = entry]
                 /\ thread_pc' = [thread_pc EXCEPT ![t] = "done"]
                 /\ UNCHANGED thread_inner
            ELSE /\ thread_inner' = [thread_inner EXCEPT ![t] = entry]
                 /\ thread_pc' = [thread_pc EXCEPT ![t] = "body"]
                 /\ UNCHANGED thread_result
    /\ UNCHANGED <<thread_prop, cacheVars>>

\* lines 54-65 of the read of tokens: the tokenizer is resolved and the body
\* of tokens starts; it reads self.standardized first (text.py line 98).
ThreadEntersBody(t) ==
    /\ thread_pc[t] = "miss"
    /\ thread_prop = "tokens"
    /\ thread_pc' = [thread_pc EXCEPT ![t] = "inner_start"]
    /\ UNCHANGED <<thread_prop, thread_result, thread_inner, cacheVars>>

\* lines 54-65: the function is resolved and run: the standardizer on the raw
\* text, or the tokenizer on the standardized text the body has read.
ThreadComputes(t) ==
    /\ \/ thread_pc[t] = "miss" /\ thread_prop = "standardized"
       \/ thread_pc[t] \in {"inner_miss", "body"}
    /\ LET out == ComputeResult("text", ReadingProp(t), ctx[t],
                                IF thread_pc[t] = "body" THEN thread_inner[t].value ELSE RawOf("text"),
                                calls)
       IN /\ calls' = out.calls
          /\ IF thread_pc[t] = "inner_miss"
               THEN /\ thread_inner' = [thread_inner EXCEPT ![t] = out.entry]
                    /\ thread_pc' = [thread_pc EXCEPT ![t] = "inner_computed"]
                    /\ UNCHANGED thread_result
               ELSE /\ thread_result' = [thread_result EXCEPT ![t] = out.entry]
                    /\ thread_pc' = [thread_pc EXCEPT ![t] = "computed"]
                    /\ UNCHANGED thread_inner
    /\ UNCHANGED <<thread_prop, registry, subjects, sources, caches, last_read>>

\* lines 66-67: the result is stored and returned.
ThreadStores(t) ==
    /\ thread_pc[t] \in {"computed", "inner_computed"}
    /\ caches' = [caches EXCEPT ![<<"text", ReadingProp(t)>>] =
            StoreEntry(@, PropertyKey(ReadingProp(t), ctx[t]),
                       IF thread_pc[t] = "computed" THEN thread_result[t] ELSE thread_inner[t])]
    /\ thread_pc' = [thread_pc EXCEPT ![t] = IF thread_pc[t] = "computed" THEN "done" ELSE "body"]
    /\ UNCHANGED <<thread_prop, thread_result, thread_inner, registry, subjects, sources, calls, last_read>>

NextRace ==
    \E t \in active_tasks :
        /\ \/ ThreadChecks(t)
           \/ ThreadFetches(t)
           \/ ThreadEntersBody(t)
           \/ ThreadComputes(t)
           \/ ThreadStores(t)
        /\ UNCHANGED <<builderVars, indexVars, pipelineVars, keywordVars>>
        /\ UNCHANGED <<lifecycleVars, errorVars, lookupVars, opVars, findVars, kwerVars, metricVars>>

SpecRace == InitRace /\ [][NextRace]_vars

\* ---- the keyword error count of an example ----
\* The reference and the hypothesis of the example hold at most MaxKwerRef
\* tokens each, its vocabulary at most MaxKeywords keywords.
MaxKwerRef == 2
MaxKeywords == 2

\* A keyword is one or two tokens.
KeywordChoices == {TokenListFromTexts(k) : k \in SeqsUpTo(Alphabet, 2) \ {<<>>}}

InitKwer ==
    /\ IdleBuilder /\ IdleIndex /\ IdlePipeline /\ IdleKeyword
    /\ IdleCache /\ IdleLifecycle /\ error_types = NoErrors
    /\ IdleLookup /\ IdleOp /\ IdleFind /\ IdleRace /\ IdleMetric
    /\ kwer_params \in [normalized : BOOLEAN, has_vocab : BOOLEAN]
    /\ \E r \in SeqsUpTo(Alphabet, MaxKwerRef), h \in SeqsUpTo(HypAlphabet, MaxKwerRef) :
         /\ kwer_ref = TokenListFromTexts(r)
         /\ kwer_hyp = TokenListFromTexts(h)
         /\ kwer_editops \in ValidScripts(TokenTexts(kwer_ref, kwer_params.normalized),
                                          TokenTexts(kwer_hyp, kwer_params.normalized))
    /\ kwer_keywords \in IF kwer_params.has_vocab
                            THEN SeqsUpTo(KeywordChoices, MaxKeywords) ELSE {<<>>}
    /\ kwer_alignment = <<>>
    /\ kwer_num_errors = NoneIdx
    /\ kwer_raised = "not read"

\* kwer.num_errors is read.
ComputeNumErrors ==
    /\ kwer_raised = "not read"
    /\ \E ref_order \in IterationOrders(MatchRefIndices(kwer_ref, kwer_editops)),
          hyp_order \in IterationOrders(MatchHypIndices(kwer_hyp, kwer_editops)) :
         LET out == NumErrorsOutcome(kwer_params, kwer_ref, kwer_hyp, kwer_editops,
                                     kwer_keywords, ref_order, hyp_order)
         IN /\ kwer_raised' = out.raised
            /\ kwer_num_errors' = out.value
            /\ kwer_alignment' = out.alignment
    /\ UNCHANGED <<kwer_params, kwer_ref, kwer_hyp, kwer_editops, kwer_keywords>>
    /\ UNCHANGED <<builderVars, indexVars, pipelineVars, keywordVars>>
    /\ UNCHANGED <<cacheVars, lifecycleVars, errorVars, lookupVars, opVars, findVars, raceVars, metricVars>>

NextKwer == ComputeNumErrors

SpecKwer == InitKwer /\ [][NextKwer]_vars

\* ---- metric values ----
\* The caller's own set_pipeline blocks are at most MaxCallerDepth deep.
MaxCallerDepth == 1

InitMetric ==
    /\ IdleBuilder /\ IdleIndex /\ IdleKeyword
    /\ IdleCache /\ IdleLifecycle /\ error_types = NoErrors
    /\ IdleLookup /\ IdleOp /\ IdleFind /\ IdleRace /\ IdleKwer
    /\ active_tasks = {"t1"}
    /\ ctx = [t \in Tasks |-> EmptyContext]
    /\ frames = [t \in Tasks |-> <<>>]
    /\ raising = [t \in Tasks |-> FALSE]
    /\ left = NoneLeft
    /\ metric_pipeline \in [Metrics -> PipelineNames \X PipelineNames \X PipelineNames]
    /\ metric_dict = [m \in Metrics |-> NotComputed]
    /\ metric_stack = <<>>
    /\ metric_read = NoMetricRead

Computing == {metric_stack[k].metric : k \in DOMAIN metric_stack}

\* The blocks the caller reads metric values in: one names all the stages,
\* the others name some.
CallerBlocks == {<<"alt", "alt", "alt">>, <<"alt", Omitted, Omitted>>, <<Omitted, "alt", "alt">>}

\* The caller enters a set_pipeline block of its own.
CallerEntersBlock(t) ==
    /\ metric_stack = <<>>
    /\ EnterSetPipelineWith(t, CallerBlocks, MaxCallerDepth)
    /\ UNCHANGED metricVars

\* The caller leaves its block, by its end or by an exception.
CallerLeavesBlock(t) ==
    /\ metric_stack = <<>>
    /\ LeaveSetPipeline(t)
    /\ UNCHANGED metricVars

\* The caller catches the exception a metric value raised.
CallerCatches(t) ==
    /\ metric_stack = <<>>
    /\ CatchException(t)
    /\ UNCHANGED metricVars

\* base.py lines 53-55: the value is in obj.__dict__ and is returned.
ReadCachedValue(t, m) ==
    /\ ~raising[t]
    /\ m \notin Computing
    /\ metric_dict[m] # NotComputed
    /\ metric_read' = [metric |-> m, outcome |-> "cached",
                       before |-> Ambient(ctx[t]), after |-> Ambient(ctx[t]),
                       cached |-> TRUE, nested |-> metric_stack # <<>>]
    /\ UNCHANGED <<metric_pipeline, metric_dict, metric_stack, pipelineVars>>

\* base.py lines 53-57: no value yet; the block of the metric's own pipeline
\* is entered and self.func(obj) starts. The caller is the code outside, or
\* the computation of another metric.
StartComputation(t, m) ==
    /\ ~raising[t]
    /\ m \notin Computing
    /\ metric_dict[m] = NotComputed
    /\ frames' = [frames EXCEPT ![t] = Append(@, FrameOnEnter(ctx[t], metric_pipeline[m]))]
    /\ ctx' = BindInContext(ctx, t, ComputationContext(ctx[t], metric_pipeline[m]))
    /\ metric_stack' = Append(metric_stack, [metric |-> m, before |-> Ambient(ctx[t])])
    /\ UNCHANGED <<metric_pipeline, metric_dict, metric_read, active_tasks, raising, left>>

\* base.py lines 58-61: self.func(obj) returns, the block is left and the
\* value is stored in obj.__dict__.
ComputationReturns(t) ==
    /\ ~raising[t]
    /\ metric_stack # <<>>
    /\ LET top == metric_stack[Len(metric_stack)]
           frame == frames[t][Len(frames[t])]
           value == MetricFunc(top.metric, ctx[t])
           after == ContextOnExit(ctx[t], frame, FALSE)
       IN /\ ctx' = BindInContext(ctx, t, after)
          /\ metric_dict' = [metric_dict EXCEPT ![top.metric] = value]
          /\ metric_read' = [metric |-> top.metric, outcome |-> "returned",
                             before |-> top.before, after |-> Ambient(after),
                             cached |-> TRUE, nested |-> Len(metric_stack) > 1]
    /\ frames' = [frames EXCEPT ![t] = SubSeq(@, 1, Len(@) - 1)]
    /\ metric_stack' = SubSeq(metric_stack, 1, Len(metric_stack) - 1)
    /\ UNCHANGED <<metric_pipeline, active_tasks, raising, left>>

\* base.py lines 57-58: self.func(obj) raises, or lets the exception of a
\* metric value it read pass; the block is left by the exception and line 60
\* is not reached.
ComputationRaises(t) ==
    /\ metric_stack # <<>>
    /\ LET top == metric_stack[Len(metric_stack)]
           frame == frames[t][Len(frames[t])]
           after == ContextOnExit(ctx[t], frame, TRUE)
       IN /\ ctx' = BindInContext(ctx, t, after)
          /\ metric_read' = [metric |-> top.metric, outcome |-> "raised",
                             before |-> top.before, after |-> Ambient(after),
                             cached |-> metric_dict[top.metric] # NotComputed,
                             nested |-> Len(metric_stack) > 1]
    /\ raising' = [raising EXCEPT ![t] = TRUE]
    /\ frames' = [frames EXCEPT ![t] = SubSeq(@, 1, Len(@) - 1)]
    /\ metric_stack' = SubSeq(metric_stack, 1, Len(metric_stack) - 1)
    /\ UNCHANGED <<metric_pipeline, metric_dict, active_tasks, left>>

\* self.func(obj) catches the exception of a metric value it read.
ComputationCatches(t) ==
    /\ metric_stack # <<>>
    /\ CatchException(t)
    /\ UNCHANGED metricVars

NextMetric ==
    \E t \in active_tasks :
        /\ \/ CallerEntersBlock(t)
           \/ CallerLeavesBlock(t)
           \/ CallerCatches(t)
           \/ \E m \in Metrics : ReadCachedValue(t, m)
           \/ \E m \in Metrics : StartComputation(t, m)
           \/ ComputationReturns(t)
           \/ ComputationRaises(t)
           \/ ComputationCatches(t)
        /\ UNCHANGED <<builderVars, indexVars, keywordVars>>
        /\ UNCHANGED <<cacheVars, lifecycleVars, errorVars, lookupVars, opVars, findVars, raceVars, kwerVars>>

SpecMetric == InitMetric /\ [][NextMetric]_vars

\* ---- the life of an Alignment ----
\* The arguments of extend: a Match followed by one more op.
ExtendArgs == {<<IndexOp(MATCH, 0, 0), op>> : op \in LifecycleOps}

LifecycleRefIdxs == {op.ref_token_idx : op \in LifecycleOps} \ {NoneIdx}

InitLifecycle ==
    /\ IdleBuilder /\ IdleIndex /\ IdlePipeline /\ IdleKeyword /\ IdleCache /\ IdleLater
    /\ al_self = NewAlignment(<<>>, <<>>, NoExample).al
    /\ al_other = NewAlignment(<<>>, <<>>, NoExample).al
    /\ al_call = NoCall
    /\ error_types = NoErrors

\* The arguments of the constructor: up to MaxAlignLen ops that have src and
\* set_source, or one object of the Op of alignment/op.py; no example or one.
ConstructArgs ==
    (SeqsUpTo(LifecycleOps, MaxAlignLen) \X {NoneStr} \X {NoExample, TheExample})
      \cup ({<<op>> : op \in LifecycleOps} \X {NoSrcAttribute} \X {NoExample, TheExample})

\* al_self = Alignment(ops) or Alignment(ops, src=example).  When the
\* constructor raises, the assignment does not happen.
Construct ==
    /\ al_call = NoCall
    /\ \E args \in ConstructArgs :
         LET new_ops == args[1]
             op_src == args[2]
             src_arg == args[3]
             out == NewAlignment(new_ops, Fresh(new_ops, op_src), src_arg)
         IN /\ al_self' = IF out.raised = "none" THEN out.al ELSE al_self
            /\ al_call' = [name |-> "construct", raised |-> out.raised, arg |-> <<>>]
    /\ UNCHANGED <<al_other, error_types>>

\* al_other = Alignment(), Alignment([op]) or Alignment([op], src=example)
ConstructOther ==
    /\ al_call = NoCall
    /\ \E new_ops \in {<<>>} \cup {<<op>> : op \in LifecycleOps}, src_arg \in {NoExample, TheExample} :
         \E op_src \in OpObjects :
            LET out == NewAlignment(new_ops, Fresh(new_ops, op_src), src_arg)
            IN /\ al_other' = IF out.raised = "none" THEN out.al ELSE al_other
               /\ al_call' = [name |-> "construct_other", raised |-> out.raised, arg |-> <<>>]
    /\ UNCHANGED <<al_self, error_types>>

\* al_self.set_source(example)
SetSource ==
    /\ al_call = NoCall
    /\ \E example \in Examples :
         LET out == SetSourceOutcome(al_self, example)
         IN /\ al_self' = out.al
            /\ al_call' = [name |-> "set_source", raised |-> out.raised, arg |-> example]
            /\ error_types' = IF out.raised = "none" THEN error_types
                              ELSE RecordError(error_types, "rebind", out.raised)
    /\ UNCHANGED al_other

\* al_self = al_self[lo:hi]
Slice ==
    /\ al_call = NoCall
    /\ \E lo \in 0..MaxAlignLen, hi \in 0..MaxAlignLen :
         /\ al_self' = GetSlice(al_self, lo, hi)
         /\ al_call' = [name |-> "slice", raised |-> "none", arg |-> <<lo, hi>>]
    /\ UNCHANGED <<al_other, error_types>>

\* al_self = al_self + al_other
Add ==
    /\ al_call = NoCall
    /\ Len(al_self.ops) + Len(al_other.ops) <= MaxAlignLen
    /\ LET out == AddOutcome(al_self, al_other)
       IN /\ al_self' = IF out.raised = "none" THEN out.al ELSE al_self
          /\ al_call' = [name |-> "add", raised |-> out.raised, arg |-> <<>>]
    /\ UNCHANGED <<al_other, error_types>>

\* al_self.append(op)
AppendOp ==
    /\ al_call = NoCall
    /\ \E op \in LifecycleOps :
         LET out == ModifyOutcome(al_self, <<op>>)
         IN /\ al_self' = out.al
            /\ al_call' = [name |-> "append", raised |-> out.raised, arg |-> <<op>>]
            /\ error_types' = IF out.raised = "none" THEN error_types
                              ELSE RecordError(error_types, "modify", out.raised)
    /\ UNCHANGED al_other

\* al_self.extend(ops)
ExtendOps ==
    /\ al_call = NoCall
    /\ \E new_ops \in ExtendArgs :
         LET out == ModifyOutcome(al_self, new_ops)
         IN /\ al_self' = out.al
            /\ al_call' = [name |-> "extend", raised |-> out.raised, arg |-> new_ops]
            /\ error_types' = IF out.raised = "none" THEN error_types
                              ELSE RecordError(error_types, "modify", out.raised)
    /\ UNCHANGED al_other

\* al_self = al_self.ops_from_ref_index(start, stop)
OpsFromRefIndexOn ==
    /\ al_call = NoCall
    /\ \E start \in LifecycleRefIdxs, stop \in {NoneIdx} \cup LifecycleRefIdxs :
         LET out == OpsFromRefIndexOutcome(al_self.ops, start, stop)
             mapping == RefIndexMapping(al_self.ops)
             last == IF stop = NoneIdx THEN start ELSE stop
         IN /\ al_self' = IF out.raised = "none"
                             THEN GetSlice(al_self, mapping[start], SliceStop(mapping, last))
                             ELSE al_self
            /\ al_call' = [name |-> "ops_from_ref_index", raised |-> out.raised, arg |-> <<start, stop>>]
            /\ error_types' = IF out.raised = "none" THEN error_types
                              ELSE RecordError(error_types, "span", out.raised)
    /\ UNCHANGED al_other

\* The caller is done with the outcome; the next operation can follow.
CallDone ==
    /\ al_call # NoCall
    /\ al_call' = NoCall
    /\ UNCHANGED <<al_self, al_other, error_types>>

NextLifecycle ==
    /\ \/ Construct
       \/ ConstructOther
       \/ SetSource
       \/ Slice
       \/ Add
       \/ AppendOp
       \/ ExtendOps
       \/ OpsFromRefIndexOn
       \/ CallDone
    /\ UNCHANGED <<builderVars, indexVars, pipelineVars, keywordVars, cacheVars, laterVars>>

SpecLifecycle == InitLifecycle /\ [][NextLifecycle]_vars

\* ---- two tasks that run set_pipeline blocks side by side ----
\* set_pipeline blocks of a task are nested at most MaxTaskDepth deep.
MaxTaskDepth == 2

\* The names a task passes to set_pipeline: its own name for every stage, or
\* for the tokenizer alone (the other two stages take the default argument).
OwnName(t) == IF t = "t1" THEN "alt" ELSE "other"
TaskConfigs(t) == {<<OwnName(t), OwnName(t), OwnName(t)>>, <<DEFAULT, OwnName(t), DEFAULT>>}

\* Task t1 starts task t2: a new thread starts with an empty context, a new
\* asyncio task with a copy of the context of the task that creates it.
SpawnTask ==
    /\ active_tasks = {"t1"}
    /\ active_tasks' = Tasks
    /\ \E inherits \in BOOLEAN :
         ctx' = [ctx EXCEPT !["t2"] = IF inherits THEN ctx["t1"] ELSE EmptyContext]
    /\ UNCHANGED <<frames, raising, left>>

InitTasks ==
    /\ IdleBuilder /\ IdleIndex /\ IdleKeyword /\ IdleNewer
    /\ active_tasks = {"t1"}
    /\ ctx = [t \in Tasks |-> EmptyContext]
    /\ frames = [t \in Tasks |-> <<>>]
    /\ raising = [t \in Tasks |-> FALSE]
    /\ left = NoneLeft

NextTasks ==
    /\ \/ \E t \in active_tasks :
            \/ EnterSetPipelineWith(t, TaskConfigs(t), MaxTaskDepth)
            \/ RaiseInBlock(t)
            \/ LeaveSetPipeline(t)
            \/ CatchException(t)
       \/ SpawnTask
    /\ UNCHANGED <<builderVars, indexVars, keywordVars, newerVars>>

SpecTasks == InitTasks /\ [][NextTasks]_vars

(***************************************************************************)
(* Claims about the builder.                                               *)
(***************************************************************************)
\* The token texts the build aligns: ref_tokens and hyp_tokens of lines 61-66.
RefTexts == TokenTexts(ref_tokens, params_normalized)
HypTexts == TokenTexts(hyp_tokens, params_normalized)

\* The token texts could be read, so that line 68 computed the edit script.
ScriptComputed ==
    SelectTokensError(ref_tokens, hyp_tokens, params_normalized, build_pipelines) = "none"

\* Whether the script, from its k-th entry on, is the script of a monotone path
\* from (i, j) to the end of both sequences: the entry at the current point is
\* followed, and a point without an entry is a match of two equal texts.
RECURSIVE FollowsPath(_, _, _, _, _, _)
FollowsPath(ref, hyp, s, i, j, k) ==
    IF k <= Len(s) /\ s[k][2] = i /\ s[k][3] = j
      THEN CASE s[k][1] = "replace" ->
                  /\ i < Len(ref) /\ j < Len(hyp) /\ ref[i + 1] # hyp[j + 1]
                  /\ FollowsPath(ref, hyp, s, i + 1, j + 1, k + 1)
             [] s[k][1] = "delete" -> i < Len(ref) /\ FollowsPath(ref, hyp, s, i + 1, j, k + 1)
             [] s[k][1] = "insert" -> j < Len(hyp) /\ FollowsPath(ref, hyp, s, i, j + 1, k + 1)
             [] OTHER -> FALSE
      ELSE IF i < Len(ref) /\ j < Len(hyp)
             THEN ref[i + 1] = hyp[j + 1] /\ FollowsPath(ref, hyp, s, i + 1, j + 1, k)
             ELSE i = Len(ref) /\ j = Len(hyp) /\ k = Len(s) + 1

\* The tokens are there and the script is one a correct edit-distance
\* primitive returns for them.
ValidInput == ScriptComputed /\ FollowsPath(RefTexts, HypTexts, rapidfuzz_ops, 0, 0, 1)

Built == build_state = "built"
Returned == build_state # "input"
\* The loop of lines 84-111 converted every entry: the build got to line 113.
Converted == build_state \in {"built", "AttributeError"}

RefBearing(ops) == SelectSeq(ops, LAMBDA o : o.type # INSERT)
HypBearing(ops) == SelectSeq(ops, LAMBDA o : o.type # DELETE)

\* C1: for a valid input the build succeeds and the ops that are not Inserts,
\* read in order, carry ref_token_idx 0, 1, ..., len(ref_tokens)-1, each with
\* the text and the span of that reference token.
C1_RefSideReconstructs ==
    (Returned /\ ValidInput) =>
        /\ Built
        /\ LET rb == RefBearing(alignment)
           IN /\ Len(rb) = Len(ref_tokens)
              /\ \A k \in DOMAIN rb :
                    /\ rb[k].ref_token_idx = k - 1
                    /\ rb[k].ref = RefTexts[k]
                    /\ rb[k].ref_span = TokenSlice(ref_tokens[k])

\* C2: for a valid input the ops that are not Deletes, read in order, carry
\* hyp_token_idx 0, 1, ..., len(hyp_tokens)-1.
C2_HypSideReconstructs ==
    (Returned /\ ValidInput) =>
        /\ Built
        /\ LET hb == HypBearing(alignment)
           IN /\ Len(hb) = Len(hyp_tokens)
              /\ \A k \in DOMAIN hb : hb[k].hyp_token_idx = k - 1

\* C3: among the ops the builder made for a valid input, the k-th smallest
\* untouched reference index is paired, in one Match op, with the k-th
\* smallest untouched hypothesis index.
C3_MatchesPairedInSortedOrder ==
    (Converted /\ ValidInput) =>
        LET mr == SortedSeq(MatchRefIndices(ref_tokens, rapidfuzz_ops))
            mh == SortedSeq(MatchHypIndices(hyp_tokens, rapidfuzz_ops))
        IN \A k \in DOMAIN mr :
              \E o \in DOMAIN bewer_ops :
                 /\ bewer_ops[o].type = MATCH
                 /\ bewer_ops[o].ref_token_idx = mr[k]
                 /\ bewer_ops[o].hyp_token_idx = mh[k]

CardinalityMismatch ==
    Cardinality(MatchRefIndices(ref_tokens, rapidfuzz_ops))
        # Cardinality(MatchHypIndices(hyp_tokens, rapidfuzz_ops))

\* C4: when the counts of untouched reference and hypothesis indices differ,
\* the build fails at the assertion (before any Match is synthesized or any
\* entry converted) and no Alignment is returned.
C4_CardinalityMismatchFails ==
    (Returned /\ ScriptComputed /\ CardinalityMismatch) =>
        /\ build_state = "AssertionError"
        /\ bewer_ops = <<>>
        /\ alignment = <<>>
        /\ alignment_src = NoExample

\* A failed build whose script left different counts and also holds an
\* unknown kind: the assertion is what fails.
C4_Witness ==
    /\ Returned /\ ScriptComputed /\ CardinalityMismatch
    /\ build_state = "AssertionError"
    /\ \E k \in DOMAIN rapidfuzz_ops : rapidfuzz_ops[k][1] = "equal"

HasKindOutside(kinds) == \E k \in DOMAIN rapidfuzz_ops : rapidfuzz_ops[k][1] \notin kinds

NoAlignment == /\ build_state \notin {"input", "built"}
               /\ alignment = <<>>
               /\ alignment_src = NoExample

\* C5: an entry whose kind is not replace, insert or delete makes the build
\* raise, and no Alignment is returned or bound to the example.
C5_NonEditKindRaises ==
    (Returned /\ HasKindOutside(EditKinds)) => NoAlignment

\* A build that raised ValueError on an unknown kind although the counts
\* agreed, after it had converted an entry before it.
C5_Witness ==
    /\ HasKindOutside(EditKinds \cup {"match"})
    /\ ~CardinalityMismatch
    /\ build_state = "ValueError"
    /\ Len(rapidfuzz_ops) >= 2
    /\ Len(bewer_ops) >= 1

(***************************************************************************)
(* Claims about ops_from_ref_index.                                        *)
(***************************************************************************)
Called == call_args # <<>>
CallStart == call_args[1]
CallStop == call_args[2]

\* The reference indices that occur in the alignment.
PresentRefIdxs == {self_ops[k].ref_token_idx : k \in DOMAIN self_ops} \ {NoneIdx}

\* The reference-bearing ops have strictly increasing ref_token_idx.
StrictlyIncreasingRef ==
    \A k, l \in DOMAIN self_ops :
        (k < l /\ self_ops[k].ref_token_idx # NoneIdx /\ self_ops[l].ref_token_idx # NoneIdx)
            => self_ops[k].ref_token_idx < self_ops[l].ref_token_idx

\* The position (from 1) of the op with reference index i.
PosOfRef(i) == CHOOSE k \in DOMAIN self_ops : self_ops[k].ref_token_idx = i

RefIdxsOf(seq) == {seq[k].ref_token_idx : k \in DOMAIN seq} \ {NoneIdx}

\* C6: on an alignment with strictly increasing reference indices, for
\* start <= stop both present, the result is the run of ops from the start op
\* through the stop op: every op between them (Inserts too) is in it, its
\* reference indices are all those of the alignment within start..stop, and
\* no op before the start op or after the stop op is in it.
C6_RangeIsContiguousRun ==
    (/\ Called /\ StrictlyIncreasingRef
     /\ CallStop # NoneIdx /\ CallStart <= CallStop
     /\ CallStart \in PresentRefIdxs /\ CallStop \in PresentRefIdxs)
    => /\ call_raised = "none"
       /\ call_result = SubSeq(self_ops, PosOfRef(CallStart), PosOfRef(CallStop))
       /\ Len(call_result) = PosOfRef(CallStop) - PosOfRef(CallStart) + 1
       /\ call_result[1].ref_token_idx = CallStart
       /\ call_result[Len(call_result)].ref_token_idx = CallStop
       /\ RefIdxsOf(call_result) = {i \in PresentRefIdxs : CallStart <= i /\ i <= CallStop}
       /\ \A k \in DOMAIN self_ops :
             (self_ops[k].type = INSERT /\ PosOfRef(CallStart) < k /\ k < PosOfRef(CallStop))
                => call_result[k - PosOfRef(CallStart) + 1] = self_ops[k]

\* A range call that returned start op, Insert, stop op and left out an op
\* lying before the start op.
C6_Witness ==
    /\ Called /\ StrictlyIncreasingRef /\ call_raised = "none"
    /\ CallStop # NoneIdx /\ CallStart < CallStop
    /\ Len(call_result) = 3 /\ call_result[2].type = INSERT
    /\ PosOfRef(CallStart) > 1

\* The span the call was given is absent or misordered.
BadSpan ==
    \/ CallStart \notin PresentRefIdxs
    \/ CallStop # NoneIdx /\ CallStop \notin PresentRefIdxs
    \/ CallStop # NoneIdx /\ CallStop < CallStart

\* C7: a call with an absent start, an absent stop or stop < start raises and
\* returns no slice, and a call that raises leaves the alignment's ops, counts
\* and source as they were.
C7_BadSpanRaises ==
    /\ [](Called => (BadSpan => call_raised = "ValueError" /\ call_result = <<>>))
    /\ [][call_raised' # "none" =>
            (self_ops' = self_ops /\ op_counts' = op_counts /\ src' = src)]_vars

\* A call with both indices present and stop < start, which raised, on an
\* alignment bound to its example.
C7_Witness ==
    /\ Called /\ call_raised = "ValueError"
    /\ CallStart \in PresentRefIdxs /\ CallStop \in PresentRefIdxs
    /\ CallStop < CallStart
    /\ src = TheExample /\ Len(self_ops) >= 3

\* C8: for a reference index i present in the alignment, ops_from_ref_index(i)
\* and ops_from_ref_index(i, i) each return exactly one op, with ref_token_idx i.
C8_SingleIndexReturnsOneOp ==
    (/\ Called /\ CallStart \in PresentRefIdxs
     /\ CallStop \in {NoneIdx, CallStart})
    => /\ call_raised = "none"
       /\ Len(call_result) = 1
       /\ call_result[1].ref_token_idx = CallStart

\* The call (i, i) on an alignment in which i occurs twice and an Insert once.
C8_Witness ==
    /\ Called /\ CallStop = CallStart /\ call_raised = "none"
    /\ Len(call_result) = 1
    /\ Cardinality({k \in DOMAIN self_ops : self_ops[k].ref_token_idx = CallStart}) = 2
    /\ \E k \in DOMAIN self_ops : self_ops[k].type = INSERT

(***************************************************************************)
(* Claims about set_pipeline.                                              *)
(***************************************************************************)
\* C10: when a set_pipeline block is left, by completion or by an exception,
\* the ambient names are those of the moment the block was entered, at any
\* depth of nesting.
C10_ExitRestoresAmbient ==
    [][\A t \in Tasks :
          Len(frames'[t]) < Len(frames[t])
             => Ambient(ctx'[t]) = frames[t][Len(frames[t])].before]_vars

\* An inner block, entered under names other than the default and itself
\* setting other names again, was left by an exception and the names it was
\* entered under are the ambient ones.
C10_Witness ==
    /\ left.task = "t1" /\ left.by_exception /\ left.depth = 2
    /\ Len(frames["t1"]) = 1
    /\ left.before = <<"alt", DEFAULT, "alt">>
    /\ Ambient(ctx["t1"]) = left.before
    /\ raising["t1"]

(***************************************************************************)
(* Claims about Keyword.find_in_tokens.                                    *)
(***************************************************************************)
Searched == find_args # <<>>
SearchNormalized == find_args[1]
KwLen == Len(kw_tokens)

\* The positions at which the haystack tokens p..p+K-1 equal the keyword's
\* tokens one by one, under the mode of the search.
OccurrencePositions ==
    {q \in 0..(Len(token_list) - KwLen) :
        \A o \in 0..(KwLen - 1) :
            TokenText(token_list[q + o + 1], SearchNormalized)
                = TokenText(kw_tokens[o + 1], SearchNormalized)}

\* C9: for a keyword of K >= 1 tokens the result lists, in ascending order of
\* start and without duplicates, exactly the positions where the keyword
\* occurs contiguously under the mode of the search (overlapping ones too),
\* each as the haystack slice [p, p+K).
C9_FindsExactlyTheOccurrences ==
    (Searched /\ KwLen >= 1) =>
        /\ \A k \in DOMAIN find_result :
              /\ Len(find_result[k]) = KwLen
              /\ find_result[k] =
                    SubSeq(token_list, find_result[k][1].index + 1, find_result[k][1].index + KwLen)
        /\ \A k, l \in DOMAIN find_result :
              k < l => find_result[k][1].index < find_result[l][1].index
        /\ {find_result[k][1].index : k \in DOMAIN find_result} = OccurrencePositions

\* A normalized search for a two-token keyword that found two overlapping
\* occurrences, one of them over a token whose raw text differs.
C9_Witness ==
    /\ Searched /\ SearchNormalized /\ KwLen = 2
    /\ Len(find_result) = 2
    /\ find_result[1][2] = find_result[2][1]
    /\ \E k \in DOMAIN token_list : token_list[k].raw = "A"
    /\ \A k \in DOMAIN kw_tokens : kw_tokens[k].raw = "a"

(***************************************************************************)
(* Claims about the pipeline-cached properties (SpecCache).                *)
(***************************************************************************)
Read == last_read.instance # "none"
ReadSucceeded == Read /\ last_read.raised = "none"
ReadSlot == <<last_read.instance, last_read.prop>>

\* The number of stages a property depends on.
StageCount(prop) ==
    CASE prop = "standardized" -> 1
      [] prop = "tokens" -> 2
      [] prop = "normalized" -> 3

\* Two ambient tuples name the same functions in stages 1..k.
AgreeUpTo(a, b, k) == \A i \in 1..k : a[i] = b[i]

\* What the pipeline functions named by the ambient tuple produce for an instance.
Expected(instance, prop, ambient) ==
    CASE prop = "standardized" -> <<"standardizers", ambient[1], RawOf(instance)>>
      [] prop = "tokens" ->
            <<"tokenizers", ambient[2], <<"standardizers", ambient[1], RawOf(instance)>>>>
      [] prop = "normalized" -> <<"normalizers", ambient[3], RawOf(instance)>>

\* C11: every value a read of standardized, tokens or normalized returns is
\* what the functions named by the ambient configuration at the time of the
\* read produce for the instance, and was computed under a configuration that
\* names the same functions for the stages of the property.
C11_ReadsMatchAmbient ==
    ReadSucceeded =>
        /\ last_read.entry.value = Expected(last_read.instance, last_read.prop, last_read.ambient)
        /\ AgreeUpTo(last_read.entry.under, last_read.ambient, StageCount(last_read.prop))

\* tokens is read with the standardizer switched, while the cache also holds
\* the tokens of another configuration.
C11_Witness ==
    /\ ReadSucceeded
    /\ last_read.prop = "tokens"
    /\ last_read.ambient = <<"alt", DEFAULT, DEFAULT>>
    /\ Cardinality(DOMAIN caches[ReadSlot]) >= 2

\* C12: a read of a stage-k property uses an existing cache entry if and only
\* if that entry was made under ambient names that agree with the present
\* ones on stages 1..k; then no entry is added and no function runs.
\* Otherwise the read adds one entry.
C12_SameEntryIffStagesAgree ==
    [][(last_read' # last_read /\ last_read'.raised = "none") =>
          LET slot == <<last_read'.instance, last_read'.prop>>
              agreeing == {key \in DOMAIN caches[slot] :
                              AgreeUpTo(caches[slot][key].under, last_read'.ambient,
                                        StageCount(last_read'.prop))}
          IN IF agreeing # {}
               THEN /\ last_read'.hit
                    /\ last_read'.entry \in {caches[slot][key] : key \in agreeing}
                    /\ caches' = caches
                    /\ calls' = calls
               ELSE /\ ~last_read'.hit
                    /\ Cardinality(DOMAIN caches'[slot]) = Cardinality(DOMAIN caches[slot]) + 1
    ]_vars

\* tokens is read with only the normalizer switched and the entry made under
\* the default normalizer is used.
C12_Witness ==
    /\ ReadSucceeded
    /\ last_read.hit
    /\ last_read.prop = "tokens"
    /\ last_read.ambient = <<DEFAULT, DEFAULT, "alt">>
    /\ last_read.entry.under = <<DEFAULT, DEFAULT, DEFAULT>>

\* C13: for one instance, property and ambient names of its stages the
\* pipeline function runs once; a read that finds the entry returns the stored
\* object, the one the first run made.
C13_ComputedOnce ==
    /\ \A x \in DOMAIN calls : calls[x] <= 1
    /\ (ReadSucceeded /\ last_read.hit) =>
          /\ last_read.entry.obj = 1
          /\ \E key \in DOMAIN caches[ReadSlot] : caches[ReadSlot][key] = last_read.entry

\* normalized is read again under the default names after it was read under
\* two other configurations.
C13_Witness ==
    /\ ReadSucceeded
    /\ last_read.hit
    /\ last_read.prop = "normalized"
    /\ last_read.ambient = <<DEFAULT, DEFAULT, DEFAULT>>
    /\ Cardinality(DOMAIN caches[ReadSlot]) >= 3

\* C14: a read that fails for want of a registry and a read that fails because
\* the registry lacks the active name raise errors of different types.
C14_ResolutionErrorsDistinct ==
    error_types["no_registry"] \cap error_types["name_missing"] = {}

(***************************************************************************)
(* Claims about two tasks (SpecTasks).                                     *)
(***************************************************************************)
InBlock(t) == Len(frames[t]) > 0

\* C15: inside its set_pipeline blocks a task reads only the names it set
\* itself, whatever the other task does; a block that is left restores the
\* names the same task had before it, and the names of the other task stay
\* as they are.
C15_TasksAreIsolated ==
    /\ [](\A t \in active_tasks : InBlock(t) => Ambient(ctx[t]) \in TaskConfigs(t))
    /\ [][\A t \in Tasks :
            Len(frames'[t]) < Len(frames[t]) =>
                /\ Ambient(ctx'[t]) = frames[t][Len(frames[t])].before
                /\ \A u \in Tasks \ {t} : ctx'[u] = ctx[u]]_vars

\* Task t2 has left an inner block while task t1 is inside a block of its own.
C15_Witness ==
    /\ left.task = "t2"
    /\ InBlock("t2")
    /\ InBlock("t1")
    /\ Ambient(ctx["t1"]) = <<"alt", "alt", "alt">>
    /\ Ambient(ctx["t2"]) = <<DEFAULT, "other", DEFAULT>>

(***************************************************************************)
(* Claims about the life of an Alignment (SpecLifecycle).                  *)
(***************************************************************************)
Recount(al, type) == Cardinality({k \in DOMAIN al.ops : al.ops[k].type = type})

CountsAgree(al) ==
    /\ num_matches(al) = Recount(al, MATCH)
    /\ num_substitutions(al) = Recount(al, SUBSTITUTE)
    /\ num_insertions(al) = Recount(al, INSERT)
    /\ num_deletions(al) = Recount(al, DELETE)
    /\ num_matches(al) + num_substitutions(al) + num_insertions(al) + num_deletions(al)
         = Len(al.ops)
    /\ num_edits(al) = Recount(al, SUBSTITUTE) + Recount(al, INSERT) + Recount(al, DELETE)

\* C16: after any sequence of constructions, appends, extends, slices and
\* concatenations the four counts of an Alignment equal a recount of its ops,
\* they sum to its length, and num_edits is the number of ops that are not
\* Matches.
C16_CountsMatchOps == CountsAgree(al_self) /\ CountsAgree(al_other)

\* A slice of an Alignment that dropped an op of one kind and kept another.
C16_Witness ==
    /\ al_call.name = "slice"
    /\ al_call.arg = <<1, 2>>
    /\ Len(al_self.ops) = 1
    /\ num_insertions(al_self) = 1

\* C17: append and extend raise and change nothing once set_source has bound
\* the Alignment; before that they succeed and add the ops.
C17_ModifyOnlyWhileUnsealed ==
    [][(al_call = NoCall /\ al_call'.name \in {"append", "extend"}) =>
          IF al_self.src # NoExample
            THEN /\ al_call'.raised # "none"
                 /\ al_self' = al_self
            ELSE /\ al_call'.raised = "none"
                 /\ al_self'.ops = al_self.ops \o al_call'.arg
                 /\ CountsAgree(al_self')]_vars

\* C18: set_source binds the example when none is bound; when one is bound it
\* raises and the Alignment keeps the example bound first.
C18_SourceBoundOnce ==
    [][(al_call = NoCall /\ al_call'.name = "set_source") =>
          IF al_self.src = NoExample
            THEN /\ al_call'.raised = "none"
                 /\ al_self'.src = al_call'.arg
            ELSE /\ al_call'.raised # "none"
                 /\ al_self'.src = al_self.src]_vars

\* set_source was called with another example than the one bound, and failed.
C18_Witness ==
    /\ al_call.name = "set_source"
    /\ al_call.raised = "ValueError"
    /\ al_call.arg = OtherExample
    /\ al_self.src = TheExample

\* C19: + raises if either operand has its source set; otherwise it returns a
\* new Alignment that holds the ops of the left operand and then those of the
\* right.
C19_AddRefusesSealedOperands ==
    [][(al_call = NoCall /\ al_call'.name = "add") =>
          IF al_self.src # NoExample \/ al_other.src # NoExample
            THEN al_call'.raised # "none"
            ELSE /\ al_call'.raised = "none"
                 /\ al_self'.ops = al_self.ops \o al_other.ops]_vars

\* C20: the type of the error ops_from_ref_index raises for an absent or
\* misordered span is the type of no other error of the core.
C20_SpanErrorHasOwnType ==
    error_types["span"] \cap
        (error_types["rebind"] \cup error_types["no_registry"] \cup error_types["name_missing"]) = {}

(***************************************************************************)
(* C21..C30                                                                *)
(***************************************************************************)
LookedUp == lookup.name # "none"

\* The end of a reference span the last lookup asked about: 1 the start, 2 the stop.
LookupEnd == IF lookup.name = "start_index_to_op" THEN 1 ELSE 2

DistinctRefSpans ==
    \A k, l \in DOMAIN self_ops :
       (k # l /\ self_ops[k].ref_span # NoneSpan /\ self_ops[l].ref_span # NoneSpan)
          => /\ SpanStart(self_ops[k].ref_span) # SpanStart(self_ops[l].ref_span)
             /\ SpanStop(self_ops[k].ref_span) # SpanStop(self_ops[l].ref_span)

\* The positions of the ops whose reference span starts (ends) at the index asked about.
LookupHits ==
    {k \in DOMAIN self_ops :
        /\ self_ops[k].ref_span # NoneSpan
        /\ self_ops[k].ref_span[LookupEnd] = lookup.char_index}

\* C21: on an Alignment whose reference spans have pairwise distinct starts
\* and ends, start_index_to_op(c) and end_index_to_op(c) return the op whose
\* reference span starts, respectively ends, at c, and None when there is no
\* such op; an Insert op is never returned.
C21_LookupReturnsTheSpanOp ==
    (LookedUp /\ DistinctRefSpans) =>
        /\ lookup.result.type # INSERT
        /\ IF LookupHits = {}
             THEN lookup.result = NoneOp
             ELSE \E k \in LookupHits :
                     /\ LookupHits = {k}
                     /\ lookup.result = self_ops[k]

\* A lookup that finds an op between two Inserts, and one that finds none.
C21_Witness ==
    /\ LookedUp /\ DistinctRefSpans
    /\ lookup.name = "end_index_to_op"
    /\ lookup.result # NoneOp
    /\ lookup.char_index = 3
    /\ Len(self_ops) >= 3
    /\ self_ops[1].type = INSERT
    /\ \E k \in DOMAIN self_ops : self_ops[k].ref_span = <<0, 1>>

\* C27: inside a set_pipeline block the ambient (standardizer, tokenizer,
\* normalizer) is exactly the tuple the block was given; a stage the caller
\* did not name is the default one, not the one of an enclosing block.
C27_BlockSetsAllThreeStages ==
    \A t \in Tasks :
       InBlock(t) =>
          LET given == frames[t][Len(frames[t])].given
          IN Ambient(ctx[t]) = [i \in 1..3 |-> IF given[i] = Omitted THEN DEFAULT ELSE given[i]]

\* An inner block that names the tokenizer alone, inside a block that named
\* the other two stages.
C27_Witness ==
    /\ Len(frames["t1"]) = 2
    /\ frames["t1"][1].given = <<"alt", Omitted, "alt">>
    /\ frames["t1"][2].given = <<Omitted, "alt", Omitted>>
    /\ Ambient(ctx["t1"]) = <<DEFAULT, "alt", DEFAULT>>

\* C29: a read of a derived property that fails, because the instance has no
\* registry, because the registry lacks the active name or because the
\* pipeline function raises, stores no entry for the property and changes no
\* entry that exists, so a later read under the same configuration resolves
\* and computes again.
C29_FailedReadCachesNothing ==
    /\ [](last_read.retry => ~last_read.hit)
    /\ [][(last_read' # last_read /\ last_read'.raised # "none") =>
            LET slot == <<last_read'.instance, last_read'.prop>>
            IN /\ caches'[slot] = caches[slot]
               /\ \A other \in CacheSlots :
                     \A key \in DOMAIN caches[other] :
                        /\ key \in DOMAIN caches'[other]
                        /\ caches'[other][key] = caches[other][key]
               /\ \A key \in DOMAIN caches'[slot] :
                     ~AgreeUpTo(caches'[slot][key].under, last_read'.ambient,
                                StageCount(last_read'.prop))]_vars

\* tokens is read again under the names under which its tokenizer raised,
\* after the registry was completed, and is computed; the standardized text
\* the failed read had stored on the way is still the one in the cache.
C29_Witness ==
    /\ ReadSucceeded /\ last_read.retry /\ ~last_read.hit
    /\ last_read.prop = "tokens"
    /\ "function" \in {c \in ErrorCauses : error_types[c] # {}}
    /\ last_read.entry.obj = 1

BothDone == \A t \in Tasks : thread_pc[t] = "done"

ThreadSlot == <<"text", thread_prop>>

\* How often the function of a property of the text has run.
RunsOf(prop) ==
    LET counter == <<"text", prop, AmbientUpTo(ctx["t1"], StageCount(prop))>>
    IN IF counter \in DOMAIN calls THEN calls[counter] ELSE 0

ThreadRuns == RunsOf(thread_prop)

\* The properties the threads read: the one they ask for, and the
\* standardized text that the body of tokens reads on the way.
PropsRead == IF thread_prop = "tokens" THEN {"tokens", "standardized"} ELSE {thread_prop}

\* C25: two threads that read the same property of the same instance under
\* the same configuration for the first time, in any interleaving, both
\* receive what the pipeline function produces; in the end the cache holds
\* exactly one entry, under their key, with that value; the function has run
\* once or twice, and nothing else differs.  The same holds of the
\* standardized text that the two reads of tokens read on the way.
C25_ConcurrentFirstReadIsBenign ==
    /\ \A t \in Tasks :
          thread_pc[t] = "done" =>
             thread_result[t].value = Expected("text", thread_prop, Ambient(ctx[t]))
    /\ \A prop \in PropsRead :
          /\ RunsOf(prop) <= 2
          /\ \A key \in DOMAIN caches[<<"text", prop>>] :
                /\ key = PropertyKey(prop, ctx["t1"])
                /\ caches[<<"text", prop>>][key].value = Expected("text", prop, Ambient(ctx["t1"]))
          /\ BothDone =>
                /\ DOMAIN caches[<<"text", prop>>] = {PropertyKey(prop, ctx["t1"])}
                /\ RunsOf(prop) >= 1
    /\ \A slot \in CacheSlots :
          slot \notin {<<"text", prop>> : prop \in PropsRead} => caches[slot] = <<>>
    /\ BothDone =>
          \E t \in Tasks : caches[ThreadSlot][PropertyKey(thread_prop, ctx["t1"])] = thread_result[t]

\* Both threads missed tokens and, inside its body, the standardized text;
\* the standardizer and the tokenizer both ran twice, and each thread
\* returned the object it made itself; the cache holds the one stored last.
C25_Witness ==
    /\ BothDone
    /\ ThreadRuns = 2
    /\ RunsOf("standardized") = 2
    /\ thread_result["t1"].obj # thread_result["t2"].obj
    /\ thread_inner["t1"].obj # thread_inner["t2"].obj
    /\ thread_prop = "tokens"
    /\ Ambient(ctx["t1"]) = <<"alt", DEFAULT, DEFAULT>>

\* C26: with an empty reference and one insert entry per hypothesis token the
\* build gives Insert ops only, in hypothesis order; with an empty hypothesis
\* and one delete entry per reference token Delete ops only, in reference
\* order; with both empty and an empty script the empty Alignment.  Nothing
\* is raised, also when the entries carry None as the index they do not use.
C26_OneSideEmptyBuilds ==
    Returned =>
        /\ Built
        /\ alignment_src = TheExample
        /\ Len(alignment) = Len(ref_tokens) + Len(hyp_tokens)
        /\ ref_tokens = <<>> =>
              \A k \in DOMAIN alignment :
                 alignment[k] = Op(INSERT, NoneStr, HypTexts[k], NoneIdx, k - 1,
                                   NoneSpan, TokenSlice(hyp_tokens[k]))
        /\ hyp_tokens = <<>> =>
              \A k \in DOMAIN alignment :
                 alignment[k] = Op(DELETE, RefTexts[k], NoneStr, k - 1, NoneIdx,
                                   TokenSlice(ref_tokens[k]), NoneSpan)

\* The computation that runs innermost.
RunningMetric == metric_stack[Len(metric_stack)].metric

\* C28: a metric value is computed under the metric's own (standardizer,
\* tokenizer, normalizer), whatever the ambient configuration of the caller;
\* when the read ends, by a value or by an exception, at the top or inside
\* the computation of another metric, the caller's ambient configuration is
\* back; and a computation that raised left no value in the cache.
C28_MetricValueRunsUnderOwnPipeline ==
    /\ metric_stack # <<>> => Ambient(ctx["t1"]) = metric_pipeline[RunningMetric]
    /\ \A m \in Metrics :
          metric_dict[m] # NotComputed => metric_dict[m].under = metric_pipeline[m]
    /\ metric_read.outcome # "none" => metric_read.after = metric_read.before
    /\ metric_read.outcome = "raised" => ~metric_read.cached

\* Inside the computation of one metric the value of another metric with
\* another pipeline raised under a caller whose ambient configuration is a
\* third one; the outer computation goes on.
C28_Witness ==
    /\ metric_read.outcome = "raised"
    /\ metric_read.nested
    /\ metric_stack # <<>>
    /\ ~raising["t1"]
    /\ metric_pipeline[metric_read.metric] # metric_pipeline[RunningMetric]
    /\ Len(frames["t1"]) = 2
    /\ frames["t1"][2].before # metric_pipeline[RunningMetric]
    /\ frames["t1"][2].before # <<DEFAULT, DEFAULT, DEFAULT>>

\* The positions at which the keyword's tokens stand side by side in the reference.
KeywordOccurrences(keyword) ==
    {q \in 0..(Len(kwer_ref) - Len(keyword)) :
        \A o \in 0..(Len(keyword) - 1) :
            lowercase(kwer_ref[q + o + 1].raw) = lowercase(keyword[o + 1].raw)}

\* The position in the alignment of the op of reference token i.
OpPositionOfRef(i) == CHOOSE k \in DOMAIN kwer_alignment : kwer_alignment[k].ref_token_idx = i

\* The occurrence of a keyword of K tokens at q is in error: between the op
\* of its first token and the op of its last token, both included, stands an
\* op that is no Match.
OccurrenceInError(q, K) ==
    \E k \in OpPositionOfRef(q)..OpPositionOfRef(q + K - 1) : kwer_alignment[k].type # MATCH

\* C24: KWER counts an occurrence of a keyword in the reference as an error
\* if and only if an op from the op of its first token to the op of its last
\* token is no Match, an Insert between the keyword's tokens included;
\* num_errors is the number of such occurrences over all keywords.
C24_ErrorsAreOccurrencesWithNonMatch ==
    kwer_raised # "not read" =>
        /\ kwer_raised = "none"
        /\ kwer_num_errors =
              Cardinality({<<n, q>> \in (DOMAIN kwer_keywords) \X (0..MaxKwerRef) :
                              /\ q \in KeywordOccurrences(kwer_keywords[n])
                              /\ OccurrenceInError(q, Len(kwer_keywords[n]))})

\* C22: find_in_tokens returns the empty list, and raises nothing, when the
\* keyword has no tokens, when it has more tokens than the haystack, and when
\* its tokens do not occur contiguously in the haystack.
C22_NoOccurrenceGivesEmptyList ==
    (Searched /\ (KwLen = 0 \/ KwLen > Len(token_list) \/ OccurrencePositions = {}))
        => find_result = <<>>

\* A search for a two-token keyword both of whose tokens the haystack holds,
\* but nowhere side by side in that order.
C22_Witness ==
    /\ Searched /\ KwLen = 2 /\ Len(token_list) = 3
    /\ \A k \in DOMAIN kw_tokens :
          \E h \in DOMAIN token_list :
             TokenText(token_list[h], SearchNormalized) = TokenText(kw_tokens[k], SearchNormalized)
    /\ OccurrencePositions = {}
    /\ find_result = <<>>

\* The index mappings the haystack has cached hold, for every text, the
\* positions of the tokens with that text.
CachedIndexesAreTrue ==
    /\ raw_index_cache.cached => raw_index_cache.mapping = IndexMapping(token_list, FALSE)
    /\ \A key \in DOMAIN normalized_index_cache :
          normalized_index_cache[key] = IndexMapping(token_list, TRUE)

\* C30: find_in_tokens and find_in_ref never modify the haystack: its tokens
\* and every cached text -> positions index hold the same position sets
\* before and after any search, a single-token search (whose candidate set is
\* the set object of the index) included.
C30_SearchLeavesHaystackAlone ==
    /\ []CachedIndexesAreTrue
    /\ [][/\ token_list' = token_list
          /\ raw_index_cache.cached => raw_index_cache' = raw_index_cache
          /\ \A key \in DOMAIN normalized_index_cache :
                /\ key \in DOMAIN normalized_index_cache'
                /\ normalized_index_cache'[key] = normalized_index_cache[key]]_vars

\* A second, single-token search that found two occurrences through the
\* index an earlier search had cached, with a result of find_in_ref kept.
C30_Witness ==
    /\ Searched /\ SearchNormalized /\ KwLen = 1
    /\ Len(find_result) = 2
    /\ DEFAULT \in DOMAIN normalized_index_cache
    /\ raw_index_cache.cached
    /\ DOMAIN cache_find_in_ref # {}

OpConstructed == op_made # NotMade

\* The fields of the reference side, and of the hypothesis side, that the arguments give.
GivesRefField == op_args.ref # NoneStr \/ op_args.ref_token_idx # NoneIdx \/ op_args.ref_span # NoneSpan
GivesHypField == op_args.hyp # NoneStr \/ op_args.hyp_token_idx # NoneIdx \/ op_args.hyp_span # NoneSpan

FieldsMatchKind ==
    CASE op_args.type \in {MATCH, SUBSTITUTE} -> op_args.ref # NoneStr /\ op_args.hyp # NoneStr
      [] op_args.type = INSERT -> op_args.hyp # NoneStr /\ ~GivesRefField
      [] op_args.type = DELETE -> op_args.ref # NoneStr /\ ~GivesHypField

\* C23: the construction of an Op fails unless its fields match its kind:
\* Match and Substitute need both texts; an Insert needs the hypothesis text
\* and carries no reference field (text, token index, span); a Delete needs
\* the reference text and carries no hypothesis field.
C23_ConstructionRequiresKindFields ==
    OpConstructed => (op_made.raised = "none" <=> FieldsMatchKind)

====
